---- MODULE Spec2Model ----
(***************************************************************************)
(* State-machine model of the NEXRAD Level 2 decoder                       *)
(* (src/src/decoder/polarToCartesian.js, class NexradLevel2).              *)
(*                                                                         *)
(* A buffer is a sequence of bytes (0..255).  Offsets are 0-based as in    *)
(* the source; TLA+ sequences are 1-based, so byte `off` is d[off + 1].    *)
(* 32-bit fields are kept as a pair <<hi16, lo16>> so that no arithmetic   *)
(* leaves the 32-bit signed range of the model checker's integers.         *)
(***************************************************************************)
EXTENDS Integers, Sequences, FiniteSets, TLC

\* ------------------------------------------------------------------------
\* Program constants
\* ------------------------------------------------------------------------
CTM_HEADER_SIZE == 12
MSG_HEADER_SIZE == 16
VOLUME_HEADER_SIZE == 24

\* Upper limit of a message's declared size in bytes (line 330).
MaxMsgSizeBytes == 20000

\* Message type of digital radar data, generic format (line 337).
MsgType31 == 31

\* Fixed part of a type-31 body that must lie inside the view (line 359).
Msg31MinBytes == 60

\* Fixed part of a moment block (line 461).
MomentHeaderBytes == 28

\* A length no modelled buffer reaches: stands for every 32-bit magnitude of
\* 2^24 or more, which the code only ever compares with a buffer length.
Huge == 1024 * 1024 * 1024

\* ------------------------------------------------------------------------
\* Byte reader (DataView, big endian)
\* ------------------------------------------------------------------------
None == <<>>

Some(x) == <<x>>

U8(d, off) == d[off + 1]

U16(d, off) == d[off + 1] * 256 + d[off + 2]

\* getUint32 / getFloat32 raw bits as <<hi16, lo16>>.
Bits32(d, off) == <<U16(d, off), U16(d, off + 2)>>

SubBytes(d, off, n) == SubSeq(d, off + 1, off + n)

\* getUint32 as a number; magnitudes of 2^24 or more collapse to Huge.
U32(d, off) ==
    IF d[off + 1] # 0 THEN Huge
    ELSE d[off + 2] * 65536 + d[off + 3] * 256 + d[off + 4]

\* getInt32: [sign |-> -1 | 0 | 1, abs |-> Math.abs(value)].
Int32(d, off) ==
    LET b0 == d[off + 1]
        b1 == d[off + 2]
        b2 == d[off + 3]
        b3 == d[off + 4]
    IN  IF b0 < 128
        THEN [sign |-> IF b0 = 0 /\ b1 = 0 /\ b2 = 0 /\ b3 = 0 THEN 0 ELSE 1,
              abs  |-> IF b0 # 0 THEN Huge ELSE b1 * 65536 + b2 * 256 + b3]
        ELSE [sign |-> -1,
              abs  |-> IF b0 # 255 THEN Huge
                       ELSE (255 - b1) * 65536 + (255 - b2) * 256 + (255 - b3) + 1]

\* ------------------------------------------------------------------------
\* IEEE-754 single precision, decided on the bit pattern <<hi16, lo16>>
\* ------------------------------------------------------------------------
F32Sign(b) == b[1] \div 32768

F32Mag(b) == <<b[1] % 32768, b[2]>>

MagLt(x, y) == x[1] < y[1] \/ (x[1] = y[1] /\ x[2] < y[2])

\* Exponent all ones and a non-zero mantissa.
F32IsNaN(b) == (b[1] % 32768) >= 32640 /\ ((b[1] % 128) # 0 \/ b[2] # 0)

\* +0 or -0.
F32IsZero(b) == F32Mag(b) = <<0, 0>>

\* a < b as IEEE compares them (false when either is NaN, -0 = +0).
F32Lt(a, b) ==
    /\ ~F32IsNaN(a)
    /\ ~F32IsNaN(b)
    /\ ~(F32IsZero(a) /\ F32IsZero(b))
    /\ \/ F32Sign(a) = 1 /\ F32Sign(b) = 0
       \/ F32Sign(a) = 0 /\ F32Sign(b) = 0 /\ MagLt(F32Mag(a), F32Mag(b))
       \/ F32Sign(a) = 1 /\ F32Sign(b) = 1 /\ MagLt(F32Mag(b), F32Mag(a))

F32Ge(a, b) == ~F32IsNaN(a) /\ ~F32IsNaN(b) /\ ~F32Lt(a, b)

F32Gt(a, b) == F32Lt(b, a)

\* Bit patterns of the literals the decoder compares with.
F32_0 == <<0, 0>>

\* 360.0f = 0x43B40000
F32_360 == <<17332, 0>>

\* -10.0f = 0xC1200000
F32_m10 == <<49440, 0>>

\* 90.0f = 0x42B40000
F32_90 == <<17076, 0>>

\* A JS number that is either a decoded float or (uint32 / 8.0).
FloatNum(b) == [kind |-> "f32", bits |-> b]

Div8Num(b) == [kind |-> "u32div8", bits |-> b]

\* 360 * 8: azInt / 8.0 >= 360 exactly when azInt >= 2880.
Az8Limit == 360 * 8

NumLt0(v) == IF v.kind = "f32" THEN F32Lt(v.bits, F32_0) ELSE FALSE

NumGe360(v) ==
    IF v.kind = "f32" THEN F32Ge(v.bits, F32_360)
    ELSE ~MagLt(v.bits, <<0, Az8Limit>>)

NumIsNaN(v) == IF v.kind = "f32" THEN F32IsNaN(v.bits) ELSE FALSE

\* ------------------------------------------------------------------------
\* Text decoding
\* ------------------------------------------------------------------------
\* new TextDecoder().decode(bytes), UTF-8 with the default ignoreBOM = false:
\* a leading byte order mark EF BB BF is consumed and not part of the string,
\* ASCII bytes decode to themselves, a byte that is no valid UTF-8 on its own
\* decodes to U+FFFD (65533).
TextDecode(bytes) ==
    LET marked == Len(bytes) >= 3 /\ bytes[1] = 239 /\ bytes[2] = 187 /\ bytes[3] = 191
        text == IF marked THEN SubSeq(bytes, 4, Len(bytes)) ELSE bytes
    IN  [i \in 1..Len(text) |-> IF text[i] < 128 THEN text[i] ELSE 65533]

IsNotNul(c) == c # 0

\* str.replace(/\0/g, '')
StripNul(s) == SelectSeq(s, IsNotNul)

\* /^[A-Z]/.test(s)
StartsUpper(s) == Len(s) > 0 /\ s[1] >= 65 /\ s[1] <= 90

\* MOMENT_MAP[name]; "" stands for undefined.
MOMENT_MAP(name) ==
    CASE name = <<82, 69, 70>> -> "REF"
      [] name = <<86, 69, 76>> -> "VEL"
      [] name = <<83, 87, 0>>  -> "SW"
      [] name = <<83, 87>>     -> "SW"
      [] name = <<90, 68, 82>> -> "ZDR"
      [] name = <<80, 72, 73>> -> "PHI"
      [] name = <<82, 72, 79>> -> "RHO"
      [] name = <<67, 70, 80>> -> "CFP"
      [] OTHER -> ""

\* The canonical names in the order MOMENT_MAP declares them.
MomentOrderDeclared == <<"REF", "VEL", "SW", "ZDR", "PHI", "RHO", "CFP">>

\* The canonical names in the order Array.prototype.sort() puts them.
MomentOrder == <<"CFP", "PHI", "REF", "RHO", "SW", "VEL", "ZDR">>

\* ------------------------------------------------------------------------
\* Moment Block Decoder
\* ------------------------------------------------------------------------
\* The Float32Array element NaN.
NaNVal == [kind |-> "NaN", raw |-> 0, offset |-> <<0, 0>>, scale |-> <<0, 0>>,
           value |-> <<0, 0>>]

\* A float whose low 16 bits are zero and whose exponent is moderate is the
\* rational (128 + m) * 2^(e - 134), m its 7 mantissa bits and e its biased
\* exponent; zero is 0 / 1.
F32Exponent(b) == (b[1] % 32768) \div 128

F32IsSmallRational(b) ==
    b[2] = 0 /\ (F32IsZero(b) \/ (F32Exponent(b) >= 122 /\ F32Exponent(b) <= 141))

F32Rational(b) ==
    LET e == F32Exponent(b)
        m == (128 + (b[1] % 128)) * (IF F32Sign(b) = 1 THEN 0 - 1 ELSE 1)
    IN  IF F32IsZero(b) THEN <<0, 1>>
        ELSE IF e >= 134 THEN <<m * 2^(e - 134), 1>>
        ELSE <<m, 2^(134 - e)>>

\* A power of two: dividing by it is exact in binary floating point.
F32IsPowerOfTwo(b) == (b[1] % 128) = 0 /\ b[2] = 0 /\ ~F32IsZero(b)

RECURSIVE Gcd(_, _)
Gcd(a, b) == IF b = 0 THEN a ELSE Gcd(b, a % b)

Abs(n) == IF n < 0 THEN 0 - n ELSE n

\* The fraction n / d in lowest terms with a positive denominator.
Reduced(n, d) ==
    LET g == Gcd(Abs(n), Abs(d))
        sgn == IF d < 0 THEN 0 - 1 ELSE 1
    IN  <<sgn * (n \div g), sgn * (d \div g)>>

\* val / scale - offset, the offset taken off after the division.
QuotientOffsetAfter(val, offset, scale) ==
    LET o == F32Rational(offset)
        s == F32Rational(scale)
    IN  Reduced(val * s[2] * o[2] - o[1] * s[1], s[1] * o[2])

\* (val - offset) / scale as a reduced fraction <<numerator, denominator>>.
Quotient(val, offset, scale) ==
    LET o == F32Rational(offset)
        s == F32Rational(scale)
    IN  Reduced((val * o[2] - o[1]) * s[2], o[2] * s[1])

\* Raw values below this are reserved (line 503).
MinValidRaw == 2

\* One gate as val / scale - offset.
PhysicalOffsetAfter(val, offset, scale) ==
    IF val < MinValidRaw THEN NaNVal
    ELSE [kind |-> "phys", raw |-> val, offset |-> offset, scale |-> scale,
          value |-> QuotientOffsetAfter(val, offset, scale)]

\* One gate in physical units: NaN for a reserved raw value, else the float
\* (val - offset) / scale, kept as the term that determines it, with its
\* value where the division is exact: the offset a small rational, the scale
\* a power of two; <<0, 0>> stands for a value not worked out.
Physical(val, offset, scale) ==
    IF val < MinValidRaw THEN NaNVal
    ELSE [kind |-> "phys", raw |-> val, offset |-> offset, scale |-> scale,
          value |-> IF F32IsSmallRational(offset) /\ F32IsSmallRational(scale)
                       /\ F32IsPowerOfTwo(scale)
                    THEN Quotient(val, offset, scale)
                    ELSE <<0, 0>>]

MinGates == 1

MaxGates == 2000

\* No lower limit on the gate width.
NoMinGateWidthM == MinGates - 1

MinGateWidthM == 50

MaxGateWidthM == 4000

\* firstGateM / 1000.0 and gateWidthM / 1000.0 (km), kept as <<numerator, 1000>>.
MetresPerKm == 1000

Km(m) == <<m, MetresPerKm>>

\* _parseMomentBlock(view, pos): None for null, else Some(record).
parseMomentBlock(d, pos) ==
    IF pos + MomentHeaderBytes > Len(d) THEN None
    ELSE
    LET name == TextDecode(SubBytes(d, pos + 1, 3))
        numGates == U16(d, pos + 8)
        firstGateM == U16(d, pos + 10)
        gateWidthM == U16(d, pos + 12)
        dataWordSize == U8(d, pos + 19)
        scale == Bits32(d, pos + 20)
        offset == Bits32(d, pos + 24)
        dataStart == pos + MomentHeaderBytes
        rawValue(i) == IF dataWordSize = 8 THEN U8(d, dataStart + i)
                       ELSE U16(d, dataStart + i * 2)
        byteSize == IF dataWordSize = 8 THEN numGates ELSE numGates * 2
    IN  IF numGates < MinGates \/ numGates > MaxGates THEN None
        ELSE IF gateWidthM < MinGateWidthM \/ gateWidthM > MaxGateWidthM THEN None
        ELSE IF F32IsZero(scale) THEN None
        ELSE IF dataWordSize # 8 /\ dataWordSize # 16 THEN None
        ELSE IF dataStart + byteSize > Len(d) THEN None
        ELSE Some([name      |-> name,
                   numGates  |-> numGates,
                   firstGate |-> Km(firstGateM),
                   gateWidth |-> Km(gateWidthM),
                   data      |-> [i \in 1..numGates |->
                                    Physical(rawValue(i - 1), offset, scale)]])

\* ------------------------------------------------------------------------
\* Ray Record Decoder
\* ------------------------------------------------------------------------
MinBlocks == 1

MaxBlocks == 15

\* 'R' and 'D', the block type characters.
CharR == 82

CharD == 68

\* Bytes a volume-data block needs for its VCP field to be read (line 419).
VolBlockBytes == 20

\* The for-of loop over blockPointers (lines 407-434): folds the pointers,
\* in order, into [moments, vcp].
RECURSIVE ScanBlocks(_, _, _, _)
ScanBlocks(d, start, ptrs, acc) ==
    IF ptrs = <<>> THEN acc
    ELSE
    LET ptr == Head(ptrs)
        blockPos == start + ptr
        typeChar == U8(d, blockPos)
        momentData == parseMomentBlock(d, blockPos)
        key == MOMENT_MAP(StripNul(momentData[1].name))
        next ==
            IF ptr = 0 THEN acc
            ELSE IF blockPos + 4 > Len(d) THEN acc
            ELSE IF typeChar = CharR
                 THEN IF blockPos + VolBlockBytes <= Len(d)
                      THEN [acc EXCEPT !.vcp = U16(d, blockPos + 16)]
                      ELSE acc
            ELSE IF typeChar = CharD
                 THEN IF momentData # None /\ key # ""
                      THEN [acc EXCEPT !.moments = (key :> momentData[1]) @@ acc.moments]
                      ELSE acc
            ELSE acc
    IN  ScanBlocks(d, start, Tail(ptrs), next)

\* The azimuth after the two fallback blocks (lines 369-386); None = reject.
DecodeAzimuth(bits) ==
    LET f == FloatNum(bits)
        a1 == IF NumLt0(f) \/ NumGe360(f) THEN Div8Num(bits) ELSE f
    IN  IF NumLt0(a1) \/ NumGe360(a1) \/ NumIsNaN(a1)
        THEN IF NumLt0(Div8Num(bits)) \/ NumGe360(Div8Num(bits))
             THEN None
             ELSE Some(Div8Num(bits))
        ELSE Some(a1)

\* elevationAngle < -10 || elevationAngle > 90 (line 391)
ElevationRejected(bits) == F32Lt(bits, F32_m10) \/ F32Gt(bits, F32_90)

EmptyMoments == [m \in {} |-> NaNVal]

\* The test left out: a ray is returned whatever its moment map holds.
NoMomentsUnchecked(moments) == FALSE

\* Object.keys(momentsData).length === 0 (line 436)
NoMoments(moments) == DOMAIN moments = {}

\* _parseMessage31(view, start, maxLength): None for null, else Some(ray).
\* A DataView read past the view throws RangeError, which the try/catch turns
\* into null; the only such read is that of the block-pointer table.
parseMessage31(d, start, maxLength) ==
    IF start + Msg31MinBytes > Len(d) THEN None
    ELSE
    LET radarId == TextDecode(SubBytes(d, start, 4))
        collectionTime == Bits32(d, start + 4)
        julianDate == U16(d, start + 8)
        az == DecodeAzimuth(Bits32(d, start + 12))
        elevationNum == U8(d, start + 22)
        elevationAngle == Bits32(d, start + 24)
        dataBlockCount == U16(d, start + 30)
        blockPointers == [i \in 1..dataBlockCount |-> U32(d, start + 32 + 4 * (i - 1))]
        scanned == ScanBlocks(d, start, blockPointers, [moments |-> EmptyMoments, vcp |-> 0])
    IN  IF ~StartsUpper(radarId) THEN None
        ELSE IF az = None THEN None
        ELSE IF ElevationRejected(elevationAngle) THEN None
        ELSE IF dataBlockCount < MinBlocks \/ dataBlockCount > MaxBlocks THEN None
        ELSE IF start + 32 + 4 * dataBlockCount > Len(d) THEN None
        ELSE IF NoMoments(scanned.moments) THEN None
        ELSE Some([stationId   |-> StripNul(radarId),
                   azimuth     |-> az[1],
                   elevation   |-> FloatNum(elevationAngle),
                   sweepNumber |-> elevationNum,
                   moments     |-> scanned.moments,
                   vcp         |-> scanned.vcp,
                   datetime    |-> IF julianDate > 0
                                   THEN Some([julian |-> julianDate, ms |-> collectionTime])
                                   ELSE None])

\* ------------------------------------------------------------------------
\* State
\* ------------------------------------------------------------------------
VARIABLES
    buffer,       \* the ArrayBuffer handed to the constructor
    bunzip,       \* the outcome of seekBzip.decode on a 'BZ' chunk of this run
    pc,           \* "new", "records", "messages", "store", "done", "failed"
    error,        \* the message of the Error thrown by the constructor, or ""
    stop,         \* why the record loop ended: "", "end", "zero", "truncated"
    pos,          \* _parseCompressedRecords: pos
    data,         \* _parseMessages: the segment being scanned
    mpos,         \* _parseMessages: pos
    raysBySweep,  \* _parseCompressedRecords: raysBySweep
    stationId,    \* this._stationId
    datetime,     \* this._datetime (None for null)
    vcp,          \* this._vcp
    sweepsData,   \* this._sweepsData
    rays,         \* this._rays
    acceptedLog,  \* the rays _parseMessage31 returned in this decode, in file order
    result,       \* outcome of the last query on the constructed volume
    prev,         \* what an earlier decode of the same buffer produced
    scanned,      \* the positions _parseMessages has examined in this segment
    polar,        \* the arguments handed to polarToCartesian
    grid          \* what polarToCartesian returned (None before the call)

vars == <<buffer, bunzip, pc, error, stop, pos, data, mpos, raysBySweep,
          stationId, datetime, vcp, sweepsData, rays, acceptedLog, result, prev,
          scanned, polar, grid>>

volume == <<stationId, datetime, vcp, sweepsData, rays>>

\* new Uint8Array(this._buffer, VOLUME_HEADER_SIZE) (line 231)
compressedData == SubSeq(buffer, VOLUME_HEADER_SIZE + 1, Len(buffer))

\* ------------------------------------------------------------------------
\* Constructor and volume header
\* ------------------------------------------------------------------------
\* The accumulator kept from an earlier decode (a map shared between
\* instances instead of a fresh local one).
KeptRaysBySweep == raysBySweep

\* const raysBySweep = {} (line 254)
NewRaysBySweep == [k \in {} |-> <<>>]

\* _parseVolumeHeader: [stationId, datetime]
parseVolumeHeader(buf) ==
    LET julianDate == U16(buf, 12)
        milliseconds == Bits32(buf, 14)
    IN  [stationId |-> StripNul(TextDecode(SubBytes(buf, 20, 4))),
         datetime  |-> IF julianDate > 0
                       THEN Some([julian |-> julianDate, ms |-> milliseconds])
                       ELSE None]

\* _parse() refuses a buffer shorter than the volume header (line 223).
FileTooSmall(buf) == Len(buf) < VOLUME_HEADER_SIZE

\* constructor up to the first iteration of the record loop.
Construct ==
    /\ pc = "new"
    /\ sweepsData' = <<>>
    /\ rays' = <<>>
    /\ vcp' = 0
    /\ acceptedLog' = <<>>
    /\ stop' = ""
    /\ data' = <<>>
    /\ mpos' = 0
    /\ pos' = 0
    /\ result' = None
    /\ IF FileTooSmall(buffer)
       THEN /\ pc' = "failed"
            /\ error' = "File too small"
            /\ stationId' = <<>>
            /\ datetime' = None
            /\ UNCHANGED raysBySweep
       ELSE /\ pc' = "records"
            /\ error' = ""
            /\ stationId' = parseVolumeHeader(buffer).stationId
            /\ datetime' = parseVolumeHeader(buffer).datetime
            /\ raysBySweep' = NewRaysBySweep
    /\ scanned' = {}
    /\ UNCHANGED <<buffer, bunzip, prev, polar, grid>>

\* ------------------------------------------------------------------------
\* Compressed Record Demultiplexer: one iteration of the while loop
\* ------------------------------------------------------------------------
\* while (pos + 4 < compressedData.byteLength)
MoreRecords == pos + 4 < Len(compressedData)

recordSize == Int32(compressedData, pos)

actualSize == recordSize.abs

\* pos + actualSize > byteLength, pos already advanced past the size field
Truncated == (pos + 4) + actualSize > Len(compressedData)

chunk == SubBytes(compressedData, pos + 4, actualSize)

\* chunk[0] === 0x42 && chunk[1] === 0x5A; an index past the end is undefined
HasBzSignature(c) == Len(c) >= 2 /\ c[1] = 66 /\ c[2] = 90

\* A chunk without the signature given up (null) instead of handed on raw.
decompressChunkSignedOnly(c) == IF HasBzSignature(c) THEN bunzip ELSE None

\* The chunk handed on raw when decoding throws, instead of null.
decompressChunkForwardRaw(c) ==
    IF HasBzSignature(c) /\ bunzip # None THEN bunzip ELSE Some(c)

\* _decompressChunk(chunk): None for null (decode threw), else the bytes.
decompressChunk(c) == IF HasBzSignature(c) THEN bunzip ELSE Some(c)

\* let decompressed = isCompressed ? this._decompressChunk(chunk) : chunk
Decompressed(c, isCompressed) == IF isCompressed THEN decompressChunk(c) ELSE Some(c)

\* pos after the size field and the chunk (lines 261 and 271)
AfterChunk(p, size) == p + 4 + size

RecordsEnd ==
    /\ pc = "records"
    /\ ~MoreRecords
    /\ pc' = "store"
    /\ stop' = "end"
    /\ UNCHANGED <<buffer, bunzip, error, pos, data, mpos, raysBySweep, stationId,
                   datetime, vcp, sweepsData, rays, acceptedLog, result, prev,
                   scanned, polar, grid>>

\* The zero size field skipped with a continue where the code has a break.
RecordZeroContinue ==
    /\ pc = "records"
    /\ MoreRecords
    /\ recordSize.sign = 0
    /\ pos' = pos + 4
    /\ UNCHANGED <<buffer, bunzip, pc, error, stop, data, mpos, raysBySweep, stationId,
                   datetime, vcp, sweepsData, rays, acceptedLog, result, prev,
                   scanned, polar, grid>>

\* if (recordSize === 0) break
RecordZero ==
    /\ pc = "records"
    /\ MoreRecords
    /\ recordSize.sign = 0
    /\ pos' = pos + 4
    /\ pc' = "store"
    /\ stop' = "zero"
    /\ UNCHANGED <<buffer, bunzip, error, data, mpos, raysBySweep, stationId,
                   datetime, vcp, sweepsData, rays, acceptedLog, result, prev,
                   scanned, polar, grid>>

\* if (pos + actualSize > compressedData.byteLength) break
RecordTruncated ==
    /\ pc = "records"
    /\ MoreRecords
    /\ recordSize.sign # 0
    /\ Truncated
    /\ pos' = pos + 4
    /\ pc' = "store"
    /\ stop' = "truncated"
    /\ UNCHANGED <<buffer, bunzip, error, data, mpos, raysBySweep, stationId,
                   datetime, vcp, sweepsData, rays, acceptedLog, result, prev,
                   scanned, polar, grid>>

\* decompressed is null: the segment is dropped, the loop goes on
DropSegment ==
    /\ pc = "records"
    /\ MoreRecords
    /\ recordSize.sign # 0
    /\ ~Truncated
    /\ Decompressed(chunk, recordSize.sign > 0) = None
    /\ pos' = AfterChunk(pos, actualSize)
    /\ UNCHANGED <<buffer, bunzip, pc, error, stop, data, mpos, raysBySweep, stationId,
                   datetime, vcp, sweepsData, rays, acceptedLog, result, prev,
                   scanned, polar, grid>>

\* The accumulator created anew for every segment (const raysBySweep = {}
\* inside the loop).
ForwardSegmentFreshMap ==
    /\ pc = "records"
    /\ MoreRecords
    /\ recordSize.sign # 0
    /\ ~Truncated
    /\ Decompressed(chunk, recordSize.sign > 0) # None
    /\ pos' = AfterChunk(pos, actualSize)
    /\ data' = Decompressed(chunk, recordSize.sign > 0)[1]
    /\ mpos' = 0
    /\ scanned' = {}
    /\ raysBySweep' = NewRaysBySweep
    /\ pc' = "messages"
    /\ UNCHANGED <<buffer, bunzip, error, stop, stationId,
                   datetime, vcp, sweepsData, rays, acceptedLog, result, prev,
                   polar, grid>>

\* this._parseMessages(decompressed, raysBySweep) is entered
ForwardSegment ==
    /\ pc = "records"
    /\ MoreRecords
    /\ recordSize.sign # 0
    /\ ~Truncated
    /\ Decompressed(chunk, recordSize.sign > 0) # None
    /\ pos' = AfterChunk(pos, actualSize)
    /\ data' = Decompressed(chunk, recordSize.sign > 0)[1]
    /\ mpos' = 0
    /\ scanned' = {}
    /\ pc' = "messages"
    /\ UNCHANGED <<buffer, bunzip, error, stop, raysBySweep, stationId,
                   datetime, vcp, sweepsData, rays, acceptedLog, result, prev,
                   polar, grid>>

\* ------------------------------------------------------------------------
\* Message Scanner: one iteration of the while loop of _parseMessages
\* ------------------------------------------------------------------------
\* while (pos < data.byteLength - (CTM_HEADER_SIZE + MSG_HEADER_SIZE))
MoreMessages == mpos < Len(data) - (CTM_HEADER_SIZE + MSG_HEADER_SIZE)

msgHeaderStart == mpos + CTM_HEADER_SIZE

\* if (msgHeaderStart + MSG_HEADER_SIZE > data.byteLength) break
HeaderCut == msgHeaderStart + MSG_HEADER_SIZE > Len(data)

msgSizeBytes == U16(data, msgHeaderStart) * 2

msgType == U8(data, msgHeaderStart + 3)

\* msgSizeBytes < MSG_HEADER_SIZE || msgSizeBytes > 20000
BadSize(size) == size < MSG_HEADER_SIZE \/ size > MaxMsgSizeBytes

totalSize == CTM_HEADER_SIZE + msgSizeBytes

msg31Start == msgHeaderStart + MSG_HEADER_SIZE

rayInfo == parseMessage31(data, msg31Start, msgSizeBytes - MSG_HEADER_SIZE)

\* The list of the sweep begun anew at every ray (an assignment of [rayInfo]
\* where the code pushes).
StoreRayAlone(rbs, ray) ==
    IF ray.sweepNumber \in DOMAIN rbs
    THEN [rbs EXCEPT ![ray.sweepNumber] = <<ray>>]
    ELSE (ray.sweepNumber :> <<ray>>) @@ rbs

\* raysBySweep[sweepNum].push(rayInfo), creating the list when absent
StoreRay(rbs, ray) ==
    IF ray.sweepNumber \in DOMAIN rbs
    THEN [rbs EXCEPT ![ray.sweepNumber] = Append(@, ray)]
    ELSE (ray.sweepNumber :> <<ray>>) @@ rbs

\* if (rayInfo.vcp > 0) this._vcp = rayInfo.vcp
NextVcp(cur, ray) == IF ray.vcp > 0 THEN ray.vcp ELSE cur

\* if (!this._datetime && rayInfo.datetime) this._datetime = rayInfo.datetime
NextDatetime(cur, ray) == IF cur = None /\ ray.datetime # None THEN ray.datetime ELSE cur

\* if (rayInfo.stationId) this._stationId = rayInfo.stationId
NextStationId(cur, ray) == IF ray.stationId # <<>> THEN ray.stationId ELSE cur

\* The position kept at a bad size (the continue without the pos += 1).
ResyncPosStay(p) == p

\* The rest of the segment given up at a bad size (a break for the continue).
ResyncPosToEnd(p) == Len(data)

\* pos += 1 (resynchronization)
ResyncPos(p) == p + 1

\* The advance by the message size alone, the 12 framing bytes forgotten.
NextMessagePosNoFraming(p, total) == p + total - CTM_HEADER_SIZE

\* pos += totalSize
NextMessagePos(p, total) == p + total

MessagesEnd ==
    /\ pc = "messages"
    /\ ~MoreMessages \/ HeaderCut
    /\ pc' = "records"
    /\ UNCHANGED <<buffer, bunzip, error, stop, pos, data, mpos, raysBySweep, stationId,
                   datetime, vcp, sweepsData, rays, acceptedLog, result, prev,
                   scanned, polar, grid>>

Resync ==
    /\ pc = "messages"
    /\ MoreMessages /\ ~HeaderCut
    /\ BadSize(msgSizeBytes)
    /\ mpos' = ResyncPos(mpos)
    /\ scanned' = scanned \cup {mpos}
    /\ UNCHANGED <<buffer, bunzip, pc, error, stop, pos, data, raysBySweep, stationId,
                   datetime, vcp, sweepsData, rays, acceptedLog, result, prev,
                   polar, grid>>

SkipMessage ==
    /\ pc = "messages"
    /\ MoreMessages /\ ~HeaderCut
    /\ ~BadSize(msgSizeBytes)
    /\ msgType # MsgType31
    /\ mpos' = NextMessagePos(mpos, totalSize)
    /\ scanned' = scanned \cup {mpos}
    /\ UNCHANGED <<buffer, bunzip, pc, error, stop, pos, data, raysBySweep, stationId,
                   datetime, vcp, sweepsData, rays, acceptedLog, result, prev,
                   polar, grid>>

\* The decoder's failure escaping as an exception that ends the constructor
\* (no try/catch around the record's decoding).
RejectRayThrows ==
    /\ pc = "messages"
    /\ MoreMessages /\ ~HeaderCut
    /\ ~BadSize(msgSizeBytes)
    /\ msgType = MsgType31
    /\ rayInfo = None
    /\ pc' = "failed"
    /\ error' = "Offset is outside the bounds of the DataView"
    /\ scanned' = scanned \cup {mpos}
    /\ UNCHANGED <<buffer, bunzip, stop, pos, data, mpos, raysBySweep, stationId,
                   datetime, vcp, sweepsData, rays, acceptedLog, result, prev,
                   polar, grid>>

\* _parseMessage31 returned null: nothing is stored, the scan goes on
RejectRay ==
    /\ pc = "messages"
    /\ MoreMessages /\ ~HeaderCut
    /\ ~BadSize(msgSizeBytes)
    /\ msgType = MsgType31
    /\ rayInfo = None
    /\ mpos' = NextMessagePos(mpos, totalSize)
    /\ scanned' = scanned \cup {mpos}
    /\ UNCHANGED <<buffer, bunzip, pc, error, stop, pos, data, raysBySweep, stationId,
                   datetime, vcp, sweepsData, rays, acceptedLog, result, prev,
                   polar, grid>>

AcceptRay ==
    /\ pc = "messages"
    /\ MoreMessages /\ ~HeaderCut
    /\ ~BadSize(msgSizeBytes)
    /\ msgType = MsgType31
    /\ rayInfo # None
    /\ raysBySweep' = StoreRay(raysBySweep, rayInfo[1])
    /\ vcp' = NextVcp(vcp, rayInfo[1])
    /\ datetime' = NextDatetime(datetime, rayInfo[1])
    /\ stationId' = NextStationId(stationId, rayInfo[1])
    /\ acceptedLog' = Append(acceptedLog, rayInfo[1])
    /\ mpos' = NextMessagePos(mpos, totalSize)
    /\ scanned' = scanned \cup {mpos}
    /\ UNCHANGED <<buffer, bunzip, pc, error, stop, pos, data,
                   sweepsData, rays, result, prev,
                   polar, grid>>

\* ------------------------------------------------------------------------
\* Volume Aggregator: sort and store, sweep metadata, the constructor's check
\* ------------------------------------------------------------------------
\* The keys sorted with the comparator reversed: (a, b) => b - a.
RECURSIVE SortedKeysReversed(_)
SortedKeysReversed(S) ==
    IF S = {} THEN <<>>
    ELSE LET m == CHOOSE x \in S : \A y \in S : x >= y
         IN  <<m>> \o SortedKeysReversed(S \ {m})

\* Object.keys(raysBySweep).map(Number).sort((a, b) => a - b)
RECURSIVE SortedKeys(_)
SortedKeys(S) ==
    IF S = {} THEN <<>>
    ELSE LET m == CHOOSE x \in S : \A y \in S : x <= y
         IN  <<m>> \o SortedKeys(S \ {m})

\* The store skipped when the record loop met a truncated segment (a return
\* where the code has a break).
SweepRaysLostOnTruncation(rbs) ==
    LET sortedKeys == SortedKeys(DOMAIN rbs)
    IN  IF stop = "truncated" THEN <<>>
        ELSE [i \in 1..Len(sortedKeys) |-> rbs[sortedKeys[i]]]

\* this._rays = sortedKeys.map(k => raysBySweep[k])
SweepRays(rbs) ==
    LET sortedKeys == SortedKeys(DOMAIN rbs)
    IN  [i \in 1..Len(sortedKeys) |-> rbs[sortedKeys[i]]]

\* parseFloat((sum of elevations / count).toFixed(2)), kept as the term that
\* determines it: the elevations averaged, in ray order.
AvgElevation(sweepRays) ==
    [kind |-> "avg2", of |-> [i \in 1..Len(sweepRays) |-> sweepRays[i].elevation]]

HasRays(meta) == meta.rayCount # 0

\* _buildSweepMetadata: one entry per non-empty sweep, index = position in _rays
buildSweepMetadata(rs) ==
    SelectSeq([i \in 1..Len(rs) |->
                  [index     |-> i - 1,
                   elevation |-> AvgElevation(rs[i]),
                   rayCount  |-> Len(rs[i])]],
              HasRays)

\* The check with an off-by-one length test: s.length <= 1.
NoRadarDataOffByOne(rs) == Len(rs) = 0 \/ \A i \in 1..Len(rs) : Len(rs[i]) <= 1

\* !this._rays.length || this._rays.every(s => s.length === 0)
NoRadarData(rs) == Len(rs) = 0 \/ \A i \in 1..Len(rs) : Len(rs[i]) = 0

StoreSweeps ==
    /\ pc = "store"
    /\ rays' = SweepRays(raysBySweep)
    /\ sweepsData' = buildSweepMetadata(rays')
    /\ IF NoRadarData(rays')
       THEN pc' = "failed" /\ error' = "File contains no valid radar data"
       ELSE pc' = "done" /\ error' = ""
    /\ UNCHANGED <<buffer, bunzip, stop, pos, data, mpos, raysBySweep, stationId,
                   datetime, vcp, acceptedLog, result, prev,
                   scanned, polar, grid>>

\* ------------------------------------------------------------------------
\* Queries on a constructed volume
\* ------------------------------------------------------------------------
Err(msg) == [status |-> "error", value |-> msg]

Ok(v) == [status |-> "ok", value |-> v]

\* sweepIndex < 0 || sweepIndex >= this._rays.length
SweepOutOfRange(rs, sweepIndex) == sweepIndex < 0 \/ sweepIndex >= Len(rs)

\* getMomentsForSweep(sweepIndex)
getMomentsForSweep(rs, sweepIndex) ==
    IF SweepOutOfRange(rs, sweepIndex) THEN Err("Sweep index out of range")
    ELSE LET sweepRays == rs[sweepIndex + 1]
             Present(m) == \E i \in 1..Len(sweepRays) : m \in DOMAIN sweepRays[i].moments
         IN  Ok(SelectSeq(MomentOrder, Present))

\* get moments(): the names of every ray of every sweep, as a set, sorted.
allMoments(rs) ==
    LET Present(m) == \E s \in 1..Len(rs) : \E i \in 1..Len(rs[s]) :
                          m \in DOMAIN rs[s][i].moments
    IN  SelectSeq(MomentOrder, Present)

\* TypedArray.prototype.set(src, offset)
SetAt(dat, src, offset) ==
    [k \in 1..Len(dat) |->
        IF k > offset /\ k <= offset + Len(src) THEN src[k - offset] ELSE dat[k]]

\* The row offset without the stride.
RowOffsetNoStride(i, numGates) == i

\* Offset = current ray index * stride (numGates) (line 208)
RowOffset(i, numGates) == i * numGates

\* The loop of lines 197-211 from ray i (0-based) on, over the flat array dat.
RECURSIVE CopyRows(_, _, _, _, _)
CopyRows(dat, sweepRays, moment, numGates, i) ==
    IF i >= Len(sweepRays) THEN dat
    ELSE
    LET ray == sweepRays[i + 1]
        rayData == ray.moments[moment].data
        limit == IF Len(rayData) < numGates THEN Len(rayData) ELSE numGates
        next == IF moment \in DOMAIN ray.moments
                THEN SetAt(dat, SubSeq(rayData, 1, limit), RowOffset(i, numGates))
                ELSE dat
    IN  CopyRows(next, sweepRays, moment, numGates, i + 1)

\* The template search without its break: the last ray that has the moment.
TemplateIndexLast(sweepRays, moment) ==
    IF \E i \in 1..Len(sweepRays) : moment \in DOMAIN sweepRays[i].moments
    THEN CHOOSE i \in 1..Len(sweepRays) :
            /\ moment \in DOMAIN sweepRays[i].moments
            /\ \A j \in (i + 1)..Len(sweepRays) : moment \notin DOMAIN sweepRays[j].moments
    ELSE 0

\* The template ray: the first ray of the sweep that has the moment (0 = none).
TemplateIndex(sweepRays, moment) ==
    IF \E i \in 1..Len(sweepRays) : moment \in DOMAIN sweepRays[i].moments
    THEN CHOOSE i \in 1..Len(sweepRays) :
            /\ moment \in DOMAIN sweepRays[i].moments
            /\ \A j \in 1..(i - 1) : moment \notin DOMAIN sweepRays[j].moments
    ELSE 0

\* The azimuths filled from the last ray backwards.
AzimuthsReversed(sweepRays) ==
    [i \in 1..Len(sweepRays) |-> sweepRays[Len(sweepRays) + 1 - i].azimuth]

\* azimuths[i] = ray.azimuth for every ray of the sweep (lines 190 and 199);
\* every accepted azimuth is a float32 already, so the Float32Array keeps it.
Azimuths(sweepRays) == [i \in 1..Len(sweepRays) |-> sweepRays[i].azimuth]

\* ranges[i] = (i * gateWidth) + firstGate, in km, as <<numerator, 1000>>
RangeAt(i, firstGate, gateWidth) == <<i * gateWidth[1] + firstGate[1], MetresPerKm>>

\* getData(sweepIndex, moment)
getData(rs, sd, sweepIndex, moment) ==
    IF SweepOutOfRange(rs, sweepIndex) THEN Err("Sweep index out of range")
    ELSE
    LET sweepRays == rs[sweepIndex + 1]
        availableMoments == getMomentsForSweep(rs, sweepIndex).value
        t == TemplateIndex(sweepRays, moment)
        momentInfo == sweepRays[t].moments[moment]
        numGates == momentInfo.numGates
        numRays == Len(sweepRays)
    IN  IF \A k \in 1..Len(availableMoments) : availableMoments[k] # moment
        THEN Err("Moment not available in sweep")
        ELSE IF t = 0 THEN Err("Moment found in index but no ray contains data.")
        ELSE Ok([data      |-> CopyRows([k \in 1..(numRays * numGates) |-> NaNVal],
                                        sweepRays, moment, numGates, 0),
                 azimuths  |-> Azimuths(sweepRays),
                 ranges    |-> [i \in 1..numGates |->
                                  RangeAt(i - 1, momentInfo.firstGate, momentInfo.gateWidth)],
                 elevation |-> sd[sweepIndex + 1].elevation,
                 dims      |-> <<numRays, numGates>>])

\* Sweep indices and moment names a caller asks for.
MaxQuerySweep == 2

QuerySweeps == (0 - 1)..MaxQuerySweep

QueryMoments == {"REF", "VEL", "ZZZ"}

GetMomentsForSweep ==
    /\ pc = "done"
    /\ \E s \in QuerySweeps :
          result' = Some([op |-> "getMomentsForSweep", sweepIndex |-> s, moment |-> "",
                          out |-> getMomentsForSweep(rays, s)])
    /\ UNCHANGED <<buffer, bunzip, pc, error, stop, pos, data, mpos, raysBySweep,
                   stationId, datetime, vcp, sweepsData, rays, acceptedLog, prev,
                   scanned, polar, grid>>

GetMoments ==
    /\ pc = "done"
    /\ result' = Some([op |-> "moments", sweepIndex |-> 0, moment |-> "",
                       out |-> Ok(allMoments(rays))])
    /\ UNCHANGED <<buffer, bunzip, pc, error, stop, pos, data, mpos, raysBySweep,
                   stationId, datetime, vcp, sweepsData, rays, acceptedLog, prev,
                   scanned, polar, grid>>

\* getData that filters the sweep's rays in place while it looks for the moment.
GetDataFilteringInPlace ==
    /\ pc = "done"
    /\ \E s \in QuerySweeps, m \in QueryMoments :
          LET HasMoment(r) == m \in DOMAIN r.moments
          IN  /\ result' = Some([op |-> "getData", sweepIndex |-> s, moment |-> m,
                                 out |-> getData(rays, sweepsData, s, m)])
              /\ rays' = IF SweepOutOfRange(rays, s) THEN rays
                         ELSE [rays EXCEPT ![s + 1] = SelectSeq(@, HasMoment)]
    /\ UNCHANGED <<buffer, bunzip, pc, error, stop, pos, data, mpos, raysBySweep,
                   stationId, datetime, vcp, sweepsData, acceptedLog, prev,
                   scanned, polar, grid>>

GetData ==
    /\ pc = "done"
    /\ \E s \in QuerySweeps, m \in QueryMoments :
          result' = Some([op |-> "getData", sweepIndex |-> s, moment |-> m,
                          out |-> getData(rays, sweepsData, s, m)])
    /\ UNCHANGED <<buffer, bunzip, pc, error, stop, pos, data, mpos, raysBySweep,
                   stationId, datetime, vcp, sweepsData, rays, acceptedLog, prev,
                   scanned, polar, grid>>

\* ------------------------------------------------------------------------
\* Decoding the same buffer a second time
\* ------------------------------------------------------------------------
Outcome == [pc |-> pc, error |-> error, stationId |-> stationId, datetime |-> datetime,
            vcp |-> vcp, sweepsData |-> sweepsData, rays |-> rays]

\* The caller keeps what the first decode gave and constructs again.
Redecode ==
    /\ pc \in {"done", "failed"}
    /\ prev = None
    /\ prev' = Some(Outcome)
    /\ pc' = "new"
    /\ UNCHANGED <<buffer, bunzip, error, stop, pos, data, mpos, raysBySweep,
                   stationId, datetime, vcp, sweepsData, rays, acceptedLog, result,
                   scanned, polar, grid>>

\* ------------------------------------------------------------------------
\* Input buffers: the byte layout the decoder reads, written out
\* ------------------------------------------------------------------------
Zeros(n) == [i \in 1..n |-> 0]

BE16(v) == <<v \div 256, v % 256>>

BE32(b) == BE16(b[1]) \o BE16(b[2])

RECURSIVE Concat(_)
Concat(ss) == IF ss = <<>> THEN <<>> ELSE Head(ss) \o Concat(Tail(ss))

\* A signed 32-bit record-size field of magnitude n < 2^24.
EncSize(negative, n) ==
    IF negative
    THEN <<255, 255 - ((n - 1) \div 65536), 255 - (((n - 1) \div 256) % 256),
           255 - ((n - 1) % 256)>>
    ELSE <<0, n \div 65536, (n \div 256) % 256, n % 256>>

\* Volume data block: 'RVOL', the VCP at +16.
EncVolBlock(v) == <<82, 86, 79, 76>> \o Zeros(12) \o BE16(v) \o Zeros(2)

\* Moment data block: 'D', name, gate count at +8, first gate at +10, gate
\* width at +12, word size at +19, scale at +20, offset at +24, samples at +28.
EncMomentBlock(name, numGates, firstM, widthM, word, scale, offset, samples) ==
    <<68>> \o name \o Zeros(4) \o BE16(numGates) \o BE16(firstM) \o BE16(widthM)
        \o Zeros(5) \o <<word>> \o BE32(scale) \o BE32(offset)
        \o (IF word = 16 THEN Concat([i \in 1..Len(samples) |-> BE16(samples[i])])
            ELSE samples)

\* Offset, from the body start, of block i behind a table of n pointers.
RECURSIVE EncBlockOffset(_, _, _)
EncBlockOffset(blocks, n, i) ==
    IF i = 1 THEN 32 + 4 * n
    ELSE EncBlockOffset(blocks, n, i - 1) + Len(blocks[i - 1])

\* Type-31 body: id at 0, time at 4, Julian day at 8, azimuth at 12, sweep
\* number at 22, elevation at 24, block count at 30, pointers from 32.
EncBody(id, time, julian, az, sweep, el, count, blocks) ==
    LET n == Len(blocks)
        raw == id \o BE32(time) \o BE16(julian) \o Zeros(2) \o BE32(az) \o Zeros(6)
                 \o <<sweep, 0>> \o BE32(el) \o Zeros(2) \o BE16(count)
                 \o Concat([i \in 1..n |-> <<0, 0>> \o BE16(EncBlockOffset(blocks, n, i))])
                 \o Concat(blocks)
        padded == IF Len(raw) < Msg31MinBytes THEN raw \o Zeros(Msg31MinBytes - Len(raw))
                  ELSE raw
    IN  IF Len(padded) % 2 = 1 THEN padded \o <<0>> ELSE padded

\* One record: 12 framing bytes, the 16-byte header (size in half-words at 0,
\* type at 3), the body.
EncMessage(type, body) ==
    Zeros(CTM_HEADER_SIZE) \o BE16((MSG_HEADER_SIZE + Len(body)) \div 2) \o <<0, type>>
        \o Zeros(12) \o body

\* Float bit patterns used in the inputs.
f0_5 == <<16128, 0>>
f1_0 == <<16256, 0>>
f1_5 == <<16320, 0>>
f2_0 == <<16384, 0>>
f10 == <<16672, 0>>
f45 == <<16948, 0>>
f66 == <<17028, 0>>
f90 == <<17076, 0>>
f95 == <<17086, 0>>
f180 == <<17204, 0>>
f200 == <<17224, 0>>
f270 == <<17287, 0>>
f300 == <<17302, 0>>
f400 == <<17352, 0>>
fNaN == <<32704, 0>>
fNeg11 == <<49456, 0>>
\* the bytes of the integer 800, which read as a float are a tiny denormal
fInt800 == <<0, 800>>

KTLX == <<75, 84, 76, 88>>
KABC == <<75, 65, 66, 67>>
lowerId == <<107, 116, 108, 120>>
REF == <<82, 69, 70>>
VEL == <<86, 69, 76>>
XYZ == <<88, 89, 90>>
ZDR == <<90, 68, 82>>
PHI == <<80, 72, 73>>
RHO == <<82, 72, 79>>
CFP == <<67, 70, 80>>
SW0 == <<83, 87, 0>>

EncRef(samples) == EncMomentBlock(REF, Len(samples), 2125, 250, 8, f2_0, f66, samples)

EncVel(samples) == EncMomentBlock(VEL, Len(samples), 2125, 1000, 16, f0_5, f1_0, samples)

EncRay(id, julian, az, sweep, el, blocks) ==
    EncMessage(MsgType31,
               EncBody(id, <<0, 1000 + sweep>>, julian, az, sweep, el, Len(blocks), blocks))

\* Moment blocks that each break one rule of the block decoder: gate width
\* below and above the limits, no gate, too many gates, a zero scale, a word
\* size of 12.
BadBlocks ==
    <<EncMomentBlock(VEL, 2, 2125, 10, 8, f1_0, F32_0, <<7, 7>>),
      EncMomentBlock(SW0, 2, 2125, 4001, 8, f1_0, F32_0, <<7, 7>>),
      EncMomentBlock(ZDR, 0, 2125, 250, 8, f1_0, F32_0, <<>>),
      EncMomentBlock(CFP, 2001, 2125, 250, 8, f1_0, F32_0, <<7>>),
      EncMomentBlock(PHI, 2, 2125, 250, 8, F32_0, F32_0, <<7, 7>>),
      EncMomentBlock(RHO, 2, 2125, 250, 12, f1_0, F32_0, <<7, 7, 7>>)>>

\* Rays of raw sweeps 3, 1, 2 in that order.  The first carries a volume data
\* block with VCP 212, the bad moment blocks, a good moment block and a second
\* block of type 'R' whose field at +16 is 0; the second has four moments; the
\* last ends in a moment block that declares more samples than the segment
\* holds.
Payload1 ==
    EncRay(KTLX, 19000, f10, 3, f0_5,
           <<EncVolBlock(212)>> \o BadBlocks \o <<EncRef(<<2, 3>>), EncVolBlock(0)>>)
    \o EncRay(KTLX, 19000, f90, 1, f0_5,
              <<EncMomentBlock(ZDR, 1, 2125, 250, 8, f1_0, F32_0, <<9>>),
                EncRef(<<5, 0, 7>>), EncVel(<<4, 1>>),
                EncMomentBlock(CFP, 2, 2125, 4000, 16, f1_0, F32_0, <<300, 1>>)>>)
    \o EncRay(KTLX, 0, f45, 2, f1_5,
              <<EncVel(<<4>>), EncMomentBlock(REF, 5, 2125, 250, 8, f1_0, F32_0, <<7>>)>>)

\* Two stray bytes, a message of another type, then rays of sweeps 1 and 2:
\* one without REF, one with a single gate, one whose elevation field is NaN.
Payload2 ==
    <<0, 0>>
    \o EncMessage(2, Zeros(4))
    \o EncRay(KABC, 19001, f180, 1, f0_5, <<EncVel(<<9, 9>>)>>)
    \o EncRay(KABC, 19001, fInt800, 1, f0_5, <<EncRef(<<8, 6>>), EncVolBlock(35)>>)
    \o EncRay(KTLX, 19001, f200, 2, fNaN, <<EncRef(<<3, 3>>)>>)

\* What the decompression routine returns when it succeeds.
Payload3 == EncRay(KABC, 19002, f300, 1, f1_5, <<EncRef(<<6, 6>>), EncVolBlock(11)>>)

\* Type-31 records that must all be rejected: azimuth NaN, azimuth 400,
\* elevation 95, elevation -11, a lower-case station id, an unknown moment
\* name, a volume data block alone, a bad moment block alone, a block of
\* another type alone, and a last record too short to hold the fixed fields.
Payload4 ==
    EncRay(KTLX, 19000, fNaN, 1, f0_5, <<EncRef(<<2>>)>>)
    \o EncRay(KTLX, 19000, f400, 1, f0_5, <<EncRef(<<2>>)>>)
    \o EncRay(KTLX, 19000, f10, 1, f95, <<EncRef(<<2>>)>>)
    \o EncRay(KTLX, 19000, f10, 1, fNeg11, <<EncRef(<<2>>)>>)
    \o EncRay(lowerId, 19000, f10, 1, f0_5, <<EncRef(<<2>>)>>)
    \o EncRay(KTLX, 19000, f10, 1, f0_5,
              <<EncMomentBlock(XYZ, 1, 2125, 250, 8, f1_0, F32_0, <<2>>)>>)
    \o EncRay(KTLX, 19000, f10, 1, f0_5, <<EncVolBlock(21)>>)
    \o EncRay(KTLX, 19000, f10, 1, f0_5, <<BadBlocks[1]>>)
    \o EncRay(KTLX, 19000, f10, 1, f0_5, <<<<88>> \o Tail(EncRef(<<2>>))>>)
    \o EncMessage(MsgType31, KTLX \o Zeros(16))

\* A chunk that opens with the bzip2 signature 'BZh9'; its content is opaque.
BzChunk == <<66, 90, 104, 57, 49, 65, 89, 38, 83, 89>>

EncUncompressed(payload) == EncSize(TRUE, Len(payload)) \o payload

EncCompressed(c) == EncSize(FALSE, Len(c)) \o c

SegmentKinds ==
    {EncUncompressed(Payload1), EncUncompressed(Payload2),
     EncCompressed(BzChunk), EncCompressed(Payload4)}

\* What may follow the segments: nothing; a zero size field and then a whole
\* segment; a size field that declares more bytes than are left.
Tails ==
    {<<>>,
     Zeros(4) \o EncUncompressed(Payload3),
     EncSize(TRUE, Len(Payload3) + 10) \o Payload3}

\* 24-byte volume headers: Julian day at 12, milliseconds at 14, station at 20.
VolumeHeaders ==
    {Zeros(12) \o BE16(18999) \o BE32(<<0, 500>>) \o Zeros(2) \o KTLX,
     Zeros(VOLUME_HEADER_SIZE)}

\* Most segments in one input buffer.
MaxSegs == 2

RECURSIVE SegmentSeqs(_)
SegmentSeqs(n) ==
    IF n = 0 THEN {<<>>}
    ELSE LET shorter == SegmentSeqs(n - 1)
         IN  shorter \cup {s \o k : s \in shorter, k \in SegmentKinds}

\* Does buf hold the bzip2 chunk as a segment?  (Only then does the outcome
\* of the decompression routine matter.)
HoldsBzChunk(buf) ==
    \E i \in 1..Len(buf) :
        i + Len(BzChunk) - 1 <= Len(buf) /\ SubSeq(buf, i, i + Len(BzChunk) - 1) = BzChunk

Buffers ==
    {h \o s \o t : h \in VolumeHeaders, s \in SegmentSeqs(MaxSegs), t \in Tails}
    \cup {<<>>, Zeros(VOLUME_HEADER_SIZE - 1)}

\* Stray bytes whose size field reads 65535 half-words, a ray, a ray with
\* elevation 95, stray bytes whose size field reads 20000 half-words and, one
\* byte on, 8192 half-words, and a last ray.
Payload5 ==
    Zeros(CTM_HEADER_SIZE) \o <<255, 255, 255>>
    \o EncRay(KABC, 19005, f270, 1, f1_0, <<EncRef(<<4>>), EncVolBlock(31)>>)
    \o EncRay(KABC, 19005, f270, 4, f95, <<EncRef(<<4>>)>>)
    \o Zeros(CTM_HEADER_SIZE) \o <<78, 32>>
    \o EncRay(KTLX, 19006, f200, 4, f1_0, <<EncRef(<<5, 5>>)>>)

\* ------------------------------------------------------------------------
\* The segments of a buffer taken in another order
\* ------------------------------------------------------------------------
\* The segments the record loop walks through, each with its size field.
RECURSIVE SegmentsFrom(_, _)
SegmentsFrom(cd, p) ==
    IF ~(p + 4 < Len(cd)) THEN <<>>
    ELSE LET size == Int32(cd, p)
         IN  IF size.sign = 0 \/ (p + 4) + size.abs > Len(cd) THEN <<>>
             ELSE <<SubBytes(cd, p, 4 + size.abs)>>
                      \o SegmentsFrom(cd, AfterChunk(p, size.abs))

Orders(n) == {f \in [1..n -> 1..n] : \A i, j \in 1..n : f[i] = f[j] => i = j}

\* The buffers that hold the volume header and the segments of buf in any order.
Reordered(buf) ==
    LET segs == SegmentsFrom(SubSeq(buf, VOLUME_HEADER_SIZE + 1, Len(buf)), 0)
    IN  {SubSeq(buf, 1, VOLUME_HEADER_SIZE) \o Concat([i \in 1..Len(segs) |-> segs[f[i]]]) :
            f \in Orders(Len(segs))}

\* The caller keeps what the decode gave and decodes the same segments in
\* another order.
RedecodeReordered ==
    /\ pc \in {"done", "failed"}
    /\ prev = None
    /\ prev' = Some(Outcome)
    /\ buffer' \in Reordered(buffer)
    /\ pc' = "new"
    /\ UNCHANGED <<bunzip, error, stop, pos, data, mpos, raysBySweep,
                   stationId, datetime, vcp, sweepsData, rays, acceptedLog, result,
                   scanned, polar, grid>>

\* Most segments in a buffer whose segments are reordered.
MaxOrderSegs == 2

OrderKinds == {EncUncompressed(Payload1), EncUncompressed(Payload3), EncUncompressed(Payload5)}

RECURSIVE OrderSeqs(_)
OrderSeqs(n) ==
    IF n = 0 THEN {<<>>}
    ELSE LET shorter == OrderSeqs(n - 1)
         IN  shorter \cup {s \o k : s \in shorter, k \in OrderKinds}

OrderBuffers == {h \o s : h \in VolumeHeaders, s \in OrderSeqs(MaxOrderSegs) \ {<<>>}}

InitSegments ==
    /\ buffer \in OrderBuffers
    /\ bunzip = None
    /\ pc = "new"
    /\ error = ""
    /\ stop = ""
    /\ pos = 0
    /\ data = <<>>
    /\ mpos = 0
    /\ raysBySweep = [k \in {} |-> <<>>]
    /\ stationId = <<>>
    /\ datetime = None
    /\ vcp = 0
    /\ sweepsData = <<>>
    /\ rays = <<>>
    /\ acceptedLog = <<>>
    /\ result = None
    /\ prev = None
    /\ scanned = {}
    /\ polar = None
    /\ grid = None

NextSegments ==
    \/ Construct
    \/ RecordsEnd
    \/ ForwardSegment
    \/ MessagesEnd
    \/ Resync
    \/ SkipMessage
    \/ RejectRay
    \/ AcceptRay
    \/ StoreSweeps
    \/ RedecodeReordered

SpecSegments == InitSegments /\ [][NextSegments]_vars

\* ------------------------------------------------------------------------
\* Records whose fields disagree with their framing
\* ------------------------------------------------------------------------
\* One record whose header declares a body of `declared` bytes, whatever the
\* length of the bytes that follow the header.
EncMessageDeclared(type, body, declared) ==
    Zeros(CTM_HEADER_SIZE) \o BE16((MSG_HEADER_SIZE + declared) \div 2) \o <<0, type>>
        \o Zeros(12) \o body

SWsp == <<83, 87, 32>>

markedId == <<239, 187, 191, 75>>

\* A stray byte; a record of type 2 whose body is a well-formed ray; rays
\* with a lower-case station id, with a block count of 0 and of 16; a ray
\* whose block count is 1 while two pointers and two blocks follow; a good
\* ray; a ray whose station id is a byte order mark and the letter K; and,
\* last in the segment, a ray that declares 15 pointers where only the first
\* fits.
Payload6 ==
    <<0>>
    \o EncMessage(2, EncBody(KTLX, <<0, 1001>>, 19000, f10, 1, f0_5, 1,
                             <<EncRef(<<2, 2, 2>>)>>))
    \o EncRay(lowerId, 19000, f10, 1, f0_5, <<EncRef(<<2>>)>>)
    \o EncMessage(MsgType31,
                  EncBody(KTLX, <<0, 1001>>, 19000, f10, 1, f0_5, 0, <<EncRef(<<2>>)>>))
    \o EncMessage(MsgType31,
                  EncBody(KTLX, <<0, 1001>>, 19000, f10, 1, f0_5, 16, <<EncRef(<<2>>)>>))
    \o EncMessage(MsgType31,
                  EncBody(KTLX, <<0, 1001>>, 19000, f45, 1, f0_5, 1,
                          <<EncVel(<<4>>), EncRef(<<2>>)>>))
    \o EncRay(KTLX, 19000, f90, 2, f0_5, <<EncRef(<<3, 3>>)>>)
    \o EncRay(markedId, 19000, f180, 2, f0_5, <<EncRef(<<4, 4>>)>>)
    \o EncMessage(MsgType31,
                  EncBody(KTLX, <<0, 1001>>, 19000, f10, 1, f0_5, 15, <<EncRef(<<2>>)>>))

\* A ray with 8-bit samples {2, 3, 4} at scale 1 and offset 0, 16-bit samples
\* at scale 0.5 and offset 1, and a block named SW padded with NUL; a ray
\* whose SW block is padded with a space and which has a block of an unknown
\* name.
Payload7 ==
    EncRay(KABC, 19007, f10, 1, f1_0,
           <<EncMomentBlock(REF, 3, 2125, 250, 8, f1_0, F32_0, <<2, 3, 4>>),
             EncMomentBlock(VEL, 5, 2125, 250, 16, f0_5, f1_0, <<0, 1, 2, 258, 1000>>),
             EncMomentBlock(SW0, 1, 2125, 250, 8, f2_0, f66, <<100>>)>>)
    \o EncRay(KABC, 19007, f45, 1, f1_0,
              <<EncMomentBlock(SWsp, 1, 2125, 250, 8, f2_0, f66, <<100>>),
                EncMomentBlock(XYZ, 1, 2125, 250, 8, f1_0, F32_0, <<2>>),
                EncMomentBlock(REF, 2, 2125, 250, 8, f2_0, f66, <<1, 255>>)>>)

\* A ray whose header declares a body of 36 bytes, the fixed fields and one
\* pointer, while the pointer leads to a moment block that starts where the
\* declared body ends; then a good ray.
Payload8 ==
    EncMessageDeclared(MsgType31,
                       EncBody(KABC, <<0, 1002>>, 19008, f180, 2, f1_0, 1,
                               <<EncRef(<<6, 6>>)>>),
                       32 + 4)
    \o EncRay(KABC, 19008, f200, 2, f1_0, <<EncVel(<<7>>)>>)

\* The buffer with the sign of every size field whose chunk lacks the 'BZ'
\* signature inverted: the compressed flag of the segment flipped, its bytes
\* kept.
RECURSIVE FlipSigns(_, _)
FlipSigns(cd, p) ==
    IF ~(p + 4 < Len(cd)) THEN SubSeq(cd, p + 1, Len(cd))
    ELSE LET size == Int32(cd, p)
             c == SubBytes(cd, p + 4, size.abs)
         IN  IF size.sign = 0 \/ (p + 4) + size.abs > Len(cd)
             THEN SubSeq(cd, p + 1, Len(cd))
             ELSE (IF HasBzSignature(c) THEN SubBytes(cd, p, 4)
                   ELSE EncSize(size.sign > 0, size.abs))
                      \o c \o FlipSigns(cd, AfterChunk(p, size.abs))

\* The caller keeps what the decode gave and decodes the buffer with the
\* compressed flags flipped.
RedecodeFlipped ==
    /\ pc \in {"done", "failed"}
    /\ prev = None
    /\ ~FileTooSmall(buffer)
    /\ prev' = Some(Outcome)
    /\ buffer' = SubSeq(buffer, 1, VOLUME_HEADER_SIZE) \o FlipSigns(compressedData, 0)
    /\ pc' = "new"
    /\ UNCHANGED <<bunzip, error, stop, pos, data, mpos, raysBySweep,
                   stationId, datetime, vcp, sweepsData, rays, acceptedLog, result,
                   scanned, polar, grid>>

\* Most segments in a buffer of such records.
MaxRecordSegs == 2

\* The segments: the three payloads, the first two uncompressed and the last
\* with a positive size, a bzip2 chunk, a zero size field, and a size field
\* that declares more bytes than any buffer holds.
RecordKinds ==
    {EncUncompressed(Payload6), EncUncompressed(Payload7), EncCompressed(Payload8),
     EncCompressed(BzChunk), Zeros(4), EncSize(TRUE, 5000)}

RECURSIVE RecordSeqs(_)
RecordSeqs(n) ==
    IF n = 0 THEN {<<>>}
    ELSE LET shorter == RecordSeqs(n - 1)
         IN  shorter \cup {s \o k : s \in shorter, k \in RecordKinds}

RecordBuffers ==
    {Zeros(VOLUME_HEADER_SIZE) \o s : s \in RecordSeqs(MaxRecordSegs) \ {<<>>}}

InitRecords ==
    /\ buffer \in RecordBuffers
    /\ bunzip \in (IF HoldsBzChunk(buffer) THEN {None, Some(Payload3)} ELSE {None})
    /\ pc = "new"
    /\ error = ""
    /\ stop = ""
    /\ pos = 0
    /\ data = <<>>
    /\ mpos = 0
    /\ raysBySweep = [k \in {} |-> <<>>]
    /\ stationId = <<>>
    /\ datetime = None
    /\ vcp = 0
    /\ sweepsData = <<>>
    /\ rays = <<>>
    /\ acceptedLog = <<>>
    /\ result = None
    /\ prev = None
    /\ scanned = {}
    /\ polar = None
    /\ grid = None

\* The steps of the decode that do not call the Ray Record Decoder.
DecodeStep ==
    \/ Construct
    \/ RecordsEnd
    \/ RecordZero
    \/ RecordTruncated
    \/ DropSegment
    \/ ForwardSegment
    \/ MessagesEnd
    \/ Resync
    \/ SkipMessage
    \/ StoreSweeps

\* The scanner passes a type-31 record: whatever _parseMessage31 returns,
\* the loop body reaches pos += totalSize (line 353).
PassRecord31 ==
    /\ pc = "messages"
    /\ MoreMessages /\ ~HeaderCut
    /\ ~BadSize(msgSizeBytes)
    /\ msgType = MsgType31
    /\ mpos' = NextMessagePos(mpos, totalSize)

NextRecords ==
    \/ Construct
    \/ RecordsEnd
    \/ RecordZero
    \/ RecordTruncated
    \/ DropSegment
    \/ ForwardSegment
    \/ MessagesEnd
    \/ Resync
    \/ SkipMessage
    \/ RejectRay
    \/ AcceptRay
    \/ StoreSweeps
    \/ RedecodeFlipped

\* The constructor is synchronous code: once called it takes its next step,
\* and a step at a type-31 record, stored or rejected, moves the position.
SpecRecords ==
    InitRecords /\ [][NextRecords]_vars /\ WF_vars(DecodeStep) /\ WF_mpos(PassRecord31)

\* ------------------------------------------------------------------------
\* Polar-to-Cartesian Resampler
\* ------------------------------------------------------------------------
\* Lengths are whole numbers of one unit (ranges) and azimuths whole multiples
\* of 45 degrees, so that every comparison the code makes is decided exactly.
\* Pixel offsets are kept doubled (2 * dx, 2 * dy), which keeps them whole for
\* odd grid sizes too.
Dx2(px, imgSize) == 2 * px - imgSize

Dy2(py, imgSize) == imgSize - 2 * py

\* 4 * (dx * dx + dy * dy)
Dist2(px, py, imgSize) ==
    Dx2(px, imgSize) * Dx2(px, imgSize) + Dy2(py, imgSize) * Dy2(py, imgSize)

\* The sign of pixelRange - x, where pixelRange is
\* Math.sqrt(dx * dx + dy * dy) * (maxRange / (imgSize / 2)) (line 22).  When
\* the two are equal as real numbers the rounding of the square root, the
\* quotient and the product decides, and round stands for what it gives; a
\* pixel range of 0 is exact.
CmpRange(d2, imgSize, maxRange, x, round) ==
    LET lhs == d2 * maxRange * maxRange
        rhs == x * x * imgSize * imgSize
    IN  IF lhs < rhs THEN 0 - 1
        ELSE IF lhs > rhs THEN 1
        ELSE IF d2 = 0 \/ maxRange = 0 THEN 0
        ELSE round

\* Math.atan2(dx, dy) * 180 / Math.PI, plus 360 when negative (lines 23-24),
\* rounded down to a multiple of 45: an azimuth a that is a multiple of 45 has
\* a <= pixelAz exactly when a <= PixelAzFloor.
PixelAzFloor(dx, dy) ==
    IF dx = 0 THEN (IF dy >= 0 THEN 0 ELSE 180)
    ELSE IF dx > 0
    THEN (IF dy > 0 THEN (IF dx < dy THEN 0 ELSE 45)
          ELSE IF dy = 0 THEN 90
          ELSE (IF dx > 0 - dy THEN 90 ELSE 135))
    ELSE (IF dy < 0 THEN (IF 0 - dx < 0 - dy THEN 180 ELSE 225)
          ELSE IF dy = 0 THEN 270
          ELSE (IF 0 - dx > dy THEN 270 ELSE 315))

\* binarySearch(arr, val) from lo to hi; le[i + 1] is arr[i] <= val.
RECURSIVE binarySearch(_, _, _)
binarySearch(le, lo, hi) ==
    IF lo < hi
    THEN LET mid == (lo + hi) \div 2
         IN  IF le[mid + 1] THEN binarySearch(le, mid + 1, hi)
             ELSE binarySearch(le, lo, mid)
    ELSE lo

\* Array.from(azimuths.keys()).sort((a, b) => azimuths[a] - azimuths[b]):
\* the 0-based indices in S by ascending azimuth, equal azimuths in index
\* order (the sort is stable).
RECURSIVE SortedAzIndices(_, _)
SortedAzIndices(azimuths, S) ==
    IF S = {} THEN <<>>
    ELSE LET first == CHOOSE i \in S : \A j \in S :
                          \/ azimuths[i + 1] < azimuths[j + 1]
                          \/ (azimuths[i + 1] = azimuths[j + 1] /\ i <= j)
         IN  <<first>> \o SortedAzIndices(azimuths, S \ {first})

\* Only the upper bound tested.
OutOfRangeAboveOnly(cmpMax, cmpMin) == cmpMax > 0

\* pixelRange > maxRange || pixelRange < minRange (line 27)
OutOfRange(cmpMax, cmpMin) == cmpMax > 0 \/ cmpMin < 0

\* The position in the sorted azimuths taken for the row.
RowOfSortedPosition(sortedAzIndices, azIdx) == azIdx

\* azIdx = sortedAzIndices[azIdx] (line 34)
RowOf(sortedAzIndices, azIdx) == sortedAzIndices[azIdx + 1]

\* binarySearch(azSorted, pixelAz) - 1, the last position when that is
\* negative (lines 32-33).
AzPosition(azSorted, pixelAz) ==
    LET found == binarySearch([i \in 1..Len(azSorted) |-> azSorted[i] <= pixelAz],
                              0, Len(azSorted)) - 1
    IN  IF found < 0 THEN Len(azSorted) - 1 ELSE found

\* The result of the search taken as the gate, without the step back.
GateBelowNoStep(ranges, d2, imgSize, round) ==
    binarySearch([i \in 1..Len(ranges) |->
                     CmpRange(d2, imgSize, ranges[Len(ranges)], ranges[i], round) >= 0],
                 0, Len(ranges))

\* binarySearch(ranges, pixelRange) - 1 (line 37)
GateBelow(ranges, d2, imgSize, round) ==
    binarySearch([i \in 1..Len(ranges) |->
                     CmpRange(d2, imgSize, ranges[Len(ranges)], ranges[i], round) >= 0],
                 0, Len(ranges)) - 1

\* Math.max(0, Math.min(rangeIdx, ranges.length - 1)) (line 38)
ClampGate(rangeIdx, n) ==
    IF rangeIdx > n - 1 THEN (IF n - 1 < 0 THEN 0 ELSE n - 1)
    ELSE IF rangeIdx < 0 THEN 0
    ELSE rangeIdx

\* What one pixel reads (lines 19-41): None when it is skipped, else the
\* position in the sorted azimuths, the row, the gate found, the gate after
\* the clamp and the index into data (0-based).
PixelRead(azimuths, ranges, imgSize, round, px, py) ==
    LET minRange == ranges[1]
        maxRange == ranges[Len(ranges)]
        sortedAzIndices == SortedAzIndices(azimuths, 0..(Len(azimuths) - 1))
        azSorted == [i \in 1..Len(azimuths) |-> azimuths[sortedAzIndices[i] + 1]]
        d2 == Dist2(px, py, imgSize)
        pixelAz == PixelAzFloor(Dx2(px, imgSize), Dy2(py, imgSize))
        azPos == AzPosition(azSorted, pixelAz)
        azIdx == RowOf(sortedAzIndices, azPos)
        gate == GateBelow(ranges, d2, imgSize, round)
        rangeIdx == ClampGate(gate, Len(ranges))
    IN  IF OutOfRange(CmpRange(d2, imgSize, maxRange, maxRange, round),
                      CmpRange(d2, imgSize, maxRange, minRange, round))
        THEN None
        ELSE Some([azPos |-> azPos, azIdx |-> azIdx, gate |-> gate,
                   rangeIdx |-> rangeIdx, index |-> azIdx * Len(ranges) + rangeIdx])

\* The reads of all pixels, in output order.
pixelReads(azimuths, ranges, imgSize, round) ==
    [k \in 1..(imgSize * imgSize) |->
        PixelRead(azimuths, ranges, imgSize, round, (k - 1) % imgSize, (k - 1) \div imgSize)]

\* polarToCartesian(data, azimuths, ranges, imgSize): the output array.
polarToCartesian(dat, azimuths, ranges, imgSize, round) ==
    LET reads == pixelReads(azimuths, ranges, imgSize, round)
    IN  [k \in 1..(imgSize * imgSize) |->
            IF reads[k] = None THEN NaNVal ELSE dat[reads[k][1].index + 1]]

\* What rounding can make of a comparison of two equal reals.
Roundings == {0 - 1, 0, 1}

PolarToCartesian ==
    /\ polar # None
    /\ grid = None
    /\ \E round \in Roundings :
          grid' = Some([round  |-> round,
                        reads  |-> pixelReads(polar[1].azimuths, polar[1].ranges,
                                              polar[1].imgSize, round),
                        output |-> polarToCartesian(polar[1].data, polar[1].azimuths,
                                                    polar[1].ranges, polar[1].imgSize, round)])
    /\ UNCHANGED <<buffer, bunzip, pc, error, stop, pos, data, mpos, raysBySweep,
                   stationId, datetime, vcp, sweepsData, rays, acceptedLog, result, prev,
                   scanned, polar>>

\* Most rays, most gates and the largest grid side handed to the resampler.
MaxPolarRays == 3

MaxPolarGates == 3

MaxImgSize == 8

\* Azimuths of the rays, in degrees.
PolarAzimuths == {45, 90, 270}

RECURSIVE AzimuthSeqs(_)
AzimuthSeqs(n) ==
    IF n = 0 THEN {<<>>}
    ELSE LET shorter == AzimuthSeqs(n - 1)
         IN  shorter \cup {s \o <<a>> : s \in shorter, a \in PolarAzimuths}

\* ranges as getData builds them, first + i * width, and one ascending
\* sequence with a range repeated.
PolarRanges ==
    {[i \in 1..n |-> first + (i - 1) * 50] : first \in {0, 100}, n \in 1..MaxPolarGates}
        \cup {<<100, 100, 150>>}

\* One moment's flat array, the sample at flat index i being the value of raw
\* sample i + MinValidRaw, with its azimuths, its ranges and a grid side.
PolarInputs ==
    {[data     |-> [k \in 1..(Len(az) * Len(rg)) |->
                      Physical(k - 1 + MinValidRaw, F32_0, f1_0)],
      azimuths |-> az,
      ranges   |-> rg,
      imgSize  |-> n] :
        az \in AzimuthSeqs(MaxPolarRays) \ {<<>>}, rg \in PolarRanges, n \in 1..MaxImgSize}

InitResample ==
    /\ polar \in {Some(x) : x \in PolarInputs}
    /\ grid = None
    /\ buffer = <<>>
    /\ bunzip = None
    /\ pc = "done"
    /\ error = ""
    /\ stop = ""
    /\ pos = 0
    /\ data = <<>>
    /\ mpos = 0
    /\ raysBySweep = [k \in {} |-> <<>>]
    /\ stationId = <<>>
    /\ datetime = None
    /\ vcp = 0
    /\ sweepsData = <<>>
    /\ rays = <<>>
    /\ acceptedLog = <<>>
    /\ result = None
    /\ prev = None
    /\ scanned = {}

NextResample == PolarToCartesian

SpecResample == InitResample /\ [][NextResample]_vars

\* ------------------------------------------------------------------------
\* Specification
\* ------------------------------------------------------------------------
Init ==
    /\ buffer \in Buffers
    /\ bunzip \in (IF HoldsBzChunk(buffer) THEN {None, Some(Payload3)} ELSE {None})
    /\ pc = "new"
    /\ error = ""
    /\ stop = ""
    /\ pos = 0
    /\ data = <<>>
    /\ mpos = 0
    /\ raysBySweep = [k \in {} |-> <<>>]
    /\ stationId = <<>>
    /\ datetime = None
    /\ vcp = 0
    /\ sweepsData = <<>>
    /\ rays = <<>>
    /\ acceptedLog = <<>>
    /\ result = None
    /\ prev = None
    /\ scanned = {}
    /\ polar = None
    /\ grid = None

Next ==
    \/ Construct
    \/ RecordsEnd
    \/ RecordZero
    \/ RecordTruncated
    \/ DropSegment
    \/ ForwardSegment
    \/ MessagesEnd
    \/ Resync
    \/ SkipMessage
    \/ RejectRay
    \/ AcceptRay
    \/ StoreSweeps
    \/ GetMomentsForSweep
    \/ GetMoments
    \/ GetData
    \/ Redecode

Spec == Init /\ [][Next]_vars

\* ------------------------------------------------------------------------
\* Properties
\* ------------------------------------------------------------------------
AzimuthInRange(v) ==
    IF v.kind = "f32"
    THEN ~F32IsNaN(v.bits) /\ ~F32Lt(v.bits, F32_0) /\ F32Lt(v.bits, F32_360)
    ELSE MagLt(v.bits, <<0, Az8Limit>>)

ElevationInRange(v) == F32Ge(v.bits, F32_m10) /\ F32Ge(F32_90, v.bits)

\* C1: every ray stored in a sweep of a constructed volume has its azimuth in
\* [0,360) and its elevation in [-10,90]; a message whose azimuth or elevation
\* field is out of range or not-a-number contributes no ray.
C1_RaysInRange ==
    pc = "done" =>
        \A i \in 1..Len(rays) : \A j \in 1..Len(rays[i]) :
            /\ AzimuthInRange(rays[i][j].azimuth)
            /\ ElevationInRange(rays[i][j].elevation)

\* The raw sweep numbers of the accepted rays.
AcceptedSweepNumbers == {acceptedLog[k].sweepNumber : k \in 1..Len(acceptedLog)}

\* The accepted rays of raw sweep number n, in file order.
LogOfSweep(n) ==
    LET OfSweep(r) == r.sweepNumber = n
    IN  SelectSeq(acceptedLog, OfSweep)

\* C2: the constructed volume holds one sweep per distinct raw sweep number of
\* the accepted rays, in ascending order of raw number, sweep i holding exactly
\* the rays of the i-th smallest number, with metadata indices 0..k-1.
C2_SweepsSortedDense ==
    pc = "done" =>
        /\ Len(rays) = Cardinality(AcceptedSweepNumbers)
        /\ \A i \in 1..Len(rays) :
              /\ Len(rays[i]) > 0
              /\ rays[i] = LogOfSweep(rays[i][1].sweepNumber)
        /\ \A i \in 1..(Len(rays) - 1) :
              rays[i][1].sweepNumber < rays[i + 1][1].sweepNumber
        /\ Len(sweepsData) = Len(rays)
        /\ \A i \in 1..Len(sweepsData) : sweepsData[i].index = i - 1

\* Raw sweep numbers 3, 1, 2 met in that order, decoded to three sweeps.
C2_Witness ==
    /\ pc = "done"
    /\ Len(rays) = 3
    /\ Len(acceptedLog) >= 3
    /\ acceptedLog[1].sweepNumber = 3
    /\ acceptedLog[2].sweepNumber = 1
    /\ acceptedLog[3].sweepNumber = 2

\* C3: construction fails exactly when the buffer is shorter than the volume
\* header or the parse accepted no ray; nothing else makes it fail.
C3_FailsIffShortOrEmpty ==
    /\ pc = "failed" => (Len(buffer) < VOLUME_HEADER_SIZE \/ Len(acceptedLog) = 0)
    /\ pc = "done" => (Len(buffer) >= VOLUME_HEADER_SIZE /\ Len(acceptedLog) > 0)
    /\ pc = "store" => Len(buffer) >= VOLUME_HEADER_SIZE

\* A volume built although a segment was cut short and rays were rejected.
C3_Witness ==
    /\ pc = "done"
    /\ stop = "truncated"
    /\ Len(acceptedLog) = 1

\* The last query, when it was a getData that returned.
GotData == result # None /\ result[1].op = "getData" /\ result[1].out.status = "ok"

\* The rays of the sweep the last query named.
QueriedRays == rays[result[1].sweepIndex + 1]

QueryInRange(r) == r.sweepIndex >= 0 /\ r.sweepIndex < Len(rays)

SweepHasMoment(s, m) == \E j \in 1..Len(rays[s + 1]) : m \in DOMAIN rays[s + 1][j].moments

QueryFailsAsClaimed(r) ==
    /\ (r.op # "moments" /\ ~QueryInRange(r)) => r.out.status = "error"
    /\ (r.op = "getData" /\ QueryInRange(r) /\ ~SweepHasMoment(r.sweepIndex, r.moment))
          => r.out.status = "error"

\* C4: a query with a sweep index outside [0, number of sweeps) fails, getData
\* fails when no ray of the sweep has the moment, and no query, failing or
\* not, changes the rays, the sweep metadata, the station id, the timestamp or
\* the VCP.
C4_QueriesFailAndKeepVolume ==
    [][(pc = "done" /\ pc' = "done") =>
          /\ volume' = volume
          /\ result' # None
          /\ QueryFailsAsClaimed(result'[1])]_vars

\* getData failed for a sweep that exists but has no ray with the moment.
C4_Witness ==
    /\ pc = "done"
    /\ result # None
    /\ result[1].op = "getData"
    /\ QueryInRange(result[1])
    /\ result[1].moment = "VEL"
    /\ result[1].out.status = "error"

\* Index of the first ray of a sweep that has moment m.
FirstRayWith(sweepRays, m) ==
    CHOOSE i \in 1..Len(sweepRays) :
        /\ m \in DOMAIN sweepRays[i].moments
        /\ \A j \in 1..Len(sweepRays) : m \in DOMAIN sweepRays[j].moments => i <= j

\* Gate count of the representative ray of the last getData.
RepGates == QueriedRays[FirstRayWith(QueriedRays, result[1].moment)]
                .moments[result[1].moment].numGates

\* C5: a successful getData returns one azimuth per ray of the sweep, entry i
\* being the azimuth of the i-th ray of that sweep in file order, dims = [ray
\* count, gate count of the representative ray], and rayCount x gateCount data.
C5_AzimuthsInFileOrder ==
    GotData =>
        LET v == result[1].out.value
            inFileOrder == LogOfSweep(QueriedRays[1].sweepNumber)
        IN  /\ Len(v.azimuths) = Len(QueriedRays)
            /\ Len(v.azimuths) = Len(inFileOrder)
            /\ \A i \in 1..Len(v.azimuths) : v.azimuths[i] = inFileOrder[i].azimuth
            /\ v.dims = <<Len(QueriedRays), RepGates>>
            /\ Len(v.data) = Len(QueriedRays) * RepGates

\* A sweep of three rays whose azimuths do not ascend in file order.
C5_Witness ==
    /\ GotData
    /\ Len(result[1].out.value.azimuths) = 3
    /\ MagLt(result[1].out.value.azimuths[2].bits, result[1].out.value.azimuths[1].bits)

\* C6: in a successful getData with G gates, row i holds the first min(g, G)
\* samples of ray i's moment (g its own gate count) followed by not-a-value,
\* and a ray without the moment gives a row of not-a-value.
C6_RowsPaddedOrTruncated ==
    GotData =>
        LET v == result[1].out.value
            m == result[1].moment
            G == v.dims[2]
        IN  \A i \in 0..(Len(QueriedRays) - 1) : \A j \in 0..(G - 1) :
                LET ray == QueriedRays[i + 1]
                    g == ray.moments[m].numGates
                IN  IF m \in DOMAIN ray.moments /\ j < g
                    THEN v.data[i * G + j + 1] = ray.moments[m].data[j + 1]
                    ELSE v.data[i * G + j + 1] = NaNVal

\* One ray lacks the moment and another has fewer gates than the
\* representative, whose sample is a value.
C6_Witness ==
    /\ GotData
    /\ \E i \in 1..Len(QueriedRays) : result[1].moment \notin DOMAIN QueriedRays[i].moments
    /\ \E i \in 1..Len(QueriedRays) :
          /\ result[1].moment \in DOMAIN QueriedRays[i].moments
          /\ QueriedRays[i].moments[result[1].moment].numGates < result[1].out.value.dims[2]
          /\ result[1].out.value.data[(i - 1) * result[1].out.value.dims[2] + 1] # NaNVal

\* C7: the ranges of a successful getData come from the first ray of the sweep
\* that has the moment: one entry per gate of that ray, entry i being
\* firstGate + i x gateSpacing of that ray, strictly increasing.
C7_RangesFromFirstRay ==
    GotData =>
        LET v == result[1].out.value
            info == QueriedRays[FirstRayWith(QueriedRays, result[1].moment)]
                        .moments[result[1].moment]
        IN  /\ Len(v.ranges) = info.numGates
            /\ \A i \in 1..Len(v.ranges) :
                  v.ranges[i] = <<info.firstGate[1] + (i - 1) * info.gateWidth[1], MetresPerKm>>
            /\ \A i \in 1..(Len(v.ranges) - 1) : v.ranges[i][1] < v.ranges[i + 1][1]

\* The representative is not the sweep's first ray, it has two gates or more,
\* and a later ray has the moment with another gate count.
C7_Witness ==
    /\ GotData
    /\ FirstRayWith(QueriedRays, result[1].moment) > 1
    /\ Len(result[1].out.value.ranges) >= 2
    /\ \E i \in 1..Len(QueriedRays) :
          /\ result[1].moment \in DOMAIN QueriedRays[i].moments
          /\ QueriedRays[i].moments[result[1].moment].numGates
                # Len(result[1].out.value.ranges)

\* C8: decoding the same buffer again, with the same decompression routine,
\* gives the same station id, timestamp, VCP, sweeps, rays and samples, or the
\* same failure.
C8_SameOutcome ==
    (prev # None /\ pc \in {"done", "failed"}) => Outcome = prev[1]

\* A second decode finished on a buffer with a decompressed segment.
C8_Witness ==
    /\ prev # None
    /\ pc = "done"
    /\ bunzip # None
    /\ Len(rays) >= 2

\* The record loop is at a compressed segment that carries the signature.
AtBzSegment ==
    /\ pc = "records"
    /\ MoreRecords
    /\ recordSize.sign > 0
    /\ (pos + 4) + actualSize <= Len(compressedData)
    /\ HasBzSignature(chunk)

\* C9: when decompression of a segment fails no message of it is scanned, the
\* rays gathered so far are kept, and the loop goes on at the segment's start
\* plus its compressed length, the same advance as when decompression works.
C9_FailedSegmentOnlyLost ==
    [][/\ (AtBzSegment /\ bunzip = None) =>
             /\ pc' = "records"
             /\ pos' = pos + 4 + actualSize
             /\ raysBySweep' = raysBySweep
             /\ acceptedLog' = acceptedLog
             /\ volume' = volume
       /\ (AtBzSegment /\ bunzip # None) =>
             /\ pc' = "messages"
             /\ pos' = pos + 4 + actualSize]_vars

\* The loop stands right behind a dropped segment with rays gathered before it.
C9_Witness ==
    /\ pc = "records"
    /\ bunzip = None
    /\ Len(acceptedLog) > 0
    /\ pos >= Len(BzChunk)
    /\ SubBytes(compressedData, pos - Len(BzChunk), Len(BzChunk)) = BzChunk

\* The record loop is at a size field that declares more bytes than are left.
AtTruncated ==
    /\ pc = "records"
    /\ MoreRecords
    /\ recordSize.sign # 0
    /\ (pos + 4) + actualSize > Len(compressedData)

\* Every accepted ray is in a sweep of rs, and rs holds nothing else.
AllGathered(rs) ==
    /\ Len(Concat(rs)) = Len(acceptedLog)
    /\ \A k \in 1..Len(acceptedLog) :
          \E i \in 1..Len(rs) : \E j \in 1..Len(rs[i]) : rs[i][j] = acceptedLog[k]

\* C10: a size field that declares more bytes than the buffer holds ends the
\* record loop without an error; the cut segment is not scanned, nothing after
\* it is read, and the volume holds every ray gathered before it.
C10_TruncatedStopsQuietly ==
    [][/\ AtTruncated =>
             /\ pc' = "store"
             /\ stop' = "truncated"
             /\ error' = error
             /\ raysBySweep' = raysBySweep
             /\ acceptedLog' = acceptedLog
       /\ (stop = "truncated" /\ pc = "store") =>
             /\ AllGathered(rays')
             /\ pos' = pos
             /\ acceptedLog # <<>> => pc' = "done"]_vars

\* A volume built from the rays gathered before a truncated segment.
C10_Witness ==
    /\ pc = "done"
    /\ stop = "truncated"
    /\ Len(acceptedLog) >= 2

\* The record loop is at a size field that reads 0.
AtZeroSize ==
    /\ pc = "records"
    /\ MoreRecords
    /\ recordSize.sign = 0

\* C11: a record-size field equal to 0 ends the record loop at once: the loop
\* is left for the store without an error, from then on the cursor does not
\* move and no segment or message is scanned, whatever bytes follow the field,
\* and the volume holds every ray gathered before it.
C11_ZeroEndsScanning ==
    [][/\ AtZeroSize =>
             /\ pc' = "store"
             /\ stop' = "zero"
             /\ pos' = pos + 4
             /\ error' = error
             /\ raysBySweep' = raysBySweep
             /\ acceptedLog' = acceptedLog
       /\ (stop = "zero" /\ pc # "new") =>
             /\ pos' = pos
             /\ acceptedLog' = acceptedLog
             /\ pc' \notin {"records", "messages"}
       /\ (stop = "zero" /\ pc = "store") =>
             /\ AllGathered(rays')
             /\ acceptedLog # <<>> => pc' = "done"]_vars

\* A volume built from the rays gathered before a zero size field that a
\* whole segment follows in the buffer.
C11_Witness ==
    /\ pc = "done"
    /\ stop = "zero"
    /\ Len(acceptedLog) >= 2
    /\ Len(compressedData) - pos = Len(EncUncompressed(Payload3))

\* The fixed fields of the type-31 body at start pass every test of the ray
\* decoder that comes before its blocks are read.
HeaderAccepted(d, start) ==
    /\ start + Msg31MinBytes <= Len(d)
    /\ StartsUpper(TextDecode(SubBytes(d, start, 4)))
    /\ DecodeAzimuth(Bits32(d, start + 12)) # None
    /\ ~ElevationRejected(Bits32(d, start + 24))
    /\ U16(d, start + 30) >= MinBlocks
    /\ U16(d, start + 30) <= MaxBlocks
    /\ start + 32 + 4 * U16(d, start + 30) <= Len(d)

\* Where the blocks of the body at start lie, in pointer order; 0 stands for
\* a pointer that is null or leaves no room for a block type and name.
BlocksAt(d, start) ==
    [i \in 1..U16(d, start + 30) |->
        LET ptr == U32(d, start + 32 + 4 * (i - 1))
        IN  IF ptr = 0 \/ start + ptr + 4 > Len(d) THEN 0 ELSE start + ptr]

\* The canonical names of the moment blocks of the body at start that the
\* block decoder returns.
RecognizedMoments(d, start) ==
    {MOMENT_MAP(StripNul(parseMomentBlock(d, BlocksAt(d, start)[i])[1].name)) :
        i \in {k \in 1..U16(d, start + 30) :
                  /\ BlocksAt(d, start)[k] # 0
                  /\ U8(d, BlocksAt(d, start)[k]) = CharD
                  /\ parseMomentBlock(d, BlocksAt(d, start)[k]) # None}} \ {""}

\* C13: every ray held by the accumulator, by a sweep of the volume or by the
\* log of accepted rays has at least one entry in its moment map, and a
\* type-31 record whose blocks yield no recognized moment adds no ray.
C13_StoredRaysHaveMoments ==
    /\ \A n \in DOMAIN raysBySweep : \A j \in 1..Len(raysBySweep[n]) :
          DOMAIN raysBySweep[n][j].moments # {}
    /\ \A i \in 1..Len(rays) : \A j \in 1..Len(rays[i]) :
          DOMAIN rays[i][j].moments # {}
    /\ (pc = "messages" /\ MoreMessages /\ ~HeaderCut /\ ~BadSize(msgSizeBytes)
          /\ msgType = MsgType31 /\ HeaderAccepted(data, msg31Start)
          /\ RecognizedMoments(data, msg31Start) = {})
          => ~ENABLED AcceptRay

\* The scanner stands right behind a record whose fixed fields are good and
\* whose only moment block decodes but has an unknown name; nothing is stored.
C13_Witness ==
    /\ pc = "messages"
    /\ acceptedLog = <<>>
    /\ \E p \in scanned :
          /\ NextMessagePos(p, CTM_HEADER_SIZE + U16(data, p + CTM_HEADER_SIZE) * 2) = mpos
          /\ U8(data, p + CTM_HEADER_SIZE + 3) = MsgType31
          /\ HeaderAccepted(data, p + CTM_HEADER_SIZE + MSG_HEADER_SIZE)
          /\ RecognizedMoments(data, p + CTM_HEADER_SIZE + MSG_HEADER_SIZE) = {}
          /\ \E i \in 1..U16(data, p + CTM_HEADER_SIZE + MSG_HEADER_SIZE + 30) :
                LET b == BlocksAt(data, p + CTM_HEADER_SIZE + MSG_HEADER_SIZE)[i]
                IN  b # 0 /\ U8(data, b) = CharD /\ parseMomentBlock(data, b) # None

\* The size field of the header at position p of d is below 16 or above 20000.
BadSizeAt(d, p) == BadSize(U16(d, p + CTM_HEADER_SIZE) * 2)

\* A whole type-31 record starts at position q of d: a size in range, type
\* 31, all its bytes in the segment, good fixed fields, a recognized moment.
WellFormed31At(d, q) ==
    /\ q + CTM_HEADER_SIZE + MSG_HEADER_SIZE <= Len(d)
    /\ ~BadSizeAt(d, q)
    /\ U8(d, q + CTM_HEADER_SIZE + 3) = MsgType31
    /\ q + CTM_HEADER_SIZE + U16(d, q + CTM_HEADER_SIZE) * 2 <= Len(d)
    /\ HeaderAccepted(d, q + CTM_HEADER_SIZE + MSG_HEADER_SIZE)
    /\ RecognizedMoments(d, q + CTM_HEADER_SIZE + MSG_HEADER_SIZE) # {}

\* The record at q was examined and its ray is among the accepted ones.
Dispatched(q) ==
    /\ q \in scanned
    /\ \E k \in 1..Len(acceptedLog) :
          Some(acceptedLog[k]) = parseMessage31(data, q + CTM_HEADER_SIZE + MSG_HEADER_SIZE, 0)

\* At a bad size the scanner moves on by one byte in the same segment and
\* nothing else changes.
ResyncStep ==
    (pc = "messages" /\ MoreMessages /\ ~HeaderCut /\ BadSize(msgSizeBytes)) =>
        /\ mpos' = mpos + 1
        /\ pc' = "messages"
        /\ data' = data
        /\ pos' = pos
        /\ acceptedLog' = acceptedLog
        /\ raysBySweep' = raysBySweep
        /\ volume' = volume

\* C12 as stated: at a bad size the scanner moves on by one byte in the same
\* segment, and every well-formed type-31 record that starts after a position
\* examined with a bad size is examined and dispatched once the scan is past it.
C12_AnyLaterRecordFound ==
    [][/\ ResyncStep
       /\ pc = "messages" =>
             \A p \in scanned : \A q \in (p + 1)..(mpos - 1) :
                 (BadSizeAt(data, p) /\ WellFormed31At(data, q)) => Dispatched(q)]_vars

\* The first position from r on whose size field is not bad (Len(d) if none).
RECURSIVE FirstGoodSize(_, _)
FirstGoodSize(d, r) ==
    IF r + CTM_HEADER_SIZE + MSG_HEADER_SIZE > Len(d) THEN Len(d)
    ELSE IF ~BadSizeAt(d, r) THEN r
    ELSE FirstGoodSize(d, r + 1)

\* C12, amended: at a bad size the scanner moves on by one byte in the same
\* segment, and a well-formed type-31 record that starts after a position
\* examined with a bad size is examined and dispatched once the scan is past
\* it, when every position from that one to the record's start has a bad size
\* (the record starts at the first position whose size is not bad).
C12_ResyncFindsNextRecord ==
    [][/\ ResyncStep
       /\ pc = "messages" =>
             \A p \in scanned :
                 LET q == FirstGoodSize(data, p)
                 IN  (BadSizeAt(data, p) /\ q < mpos /\ WellFormed31At(data, q))
                        => Dispatched(q)]_vars

\* A ray was dispatched from a record that follows a run of positions with
\* sizes above 20000 and below 16, the scan starting at a size above 20000.
C12_Witness ==
    /\ pc = "messages"
    /\ 0 \in scanned
    /\ U16(data, CTM_HEADER_SIZE) * 2 > MaxMsgSizeBytes
    /\ \E q \in scanned :
          /\ q > 0
          /\ q < mpos
          /\ \A r \in 0..(q - 1) : BadSizeAt(data, r)
          /\ \E r \in 0..(q - 1) : U16(data, r + CTM_HEADER_SIZE) * 2 < MSG_HEADER_SIZE
          /\ WellFormed31At(data, q)
          /\ Dispatched(q)

\* The moment block at b of d keeps the rules of the claim: header inside the
\* segment, 1..2000 gates, gate spacing 50..4000 m, a non-zero scale, a word
\* size of 8 or 16, and all its samples inside the segment.
BlockValid(d, b) ==
    /\ b + 28 <= Len(d)
    /\ U16(d, b + 8) >= 1
    /\ U16(d, b + 8) <= 2000
    /\ U16(d, b + 12) >= 50
    /\ U16(d, b + 12) <= 4000
    /\ ~F32IsZero(Bits32(d, b + 20))
    /\ U8(d, b + 19) \in {8, 16}
    /\ b + 28 + U16(d, b + 8) * (U8(d, b + 19) \div 8) <= Len(d)

\* The moment blocks of the body at start, as positions in d.
MomentBlocksAt(d, start) ==
    {b \in {BlocksAt(d, start)[i] : i \in 1..U16(d, start + 30)} :
        b # 0 /\ U8(d, b) = CharD}

\* The canonical name the block at b goes by ("" if none).
BlockKey(d, b) == MOMENT_MAP(StripNul(TextDecode(SubBytes(d, b + 1, 3))))

\* A moment record as the claim wants it.
RecordValid(rec) ==
    /\ rec.numGates >= 1
    /\ rec.numGates <= 2000
    /\ rec.gateWidth[1] >= 50
    /\ rec.gateWidth[1] <= 4000
    /\ rec.gateWidth[2] = 1000
    /\ Len(rec.data) = rec.numGates
    /\ \A g \in 1..Len(rec.data) :
          rec.data[g].kind = "phys" => ~F32IsZero(rec.data[g].scale)

\* C14: every moment record of a ray held by the accumulator or the volume has
\* 1..2000 gates, a gate spacing of 50..4000 m, a non-zero scale and exactly
\* gate-count samples; the moment records of a ray being accepted come from
\* blocks of its record that keep every rule (word size 8 or 16 among them),
\* and every such block with a recognized name has its moment in the ray,
\* whatever other blocks of the record were dropped.
C14_MomentRecordsValid ==
    [][/\ \A n \in DOMAIN raysBySweep : \A j \in 1..Len(raysBySweep[n]) :
             \A m \in DOMAIN raysBySweep[n][j].moments :
                 RecordValid(raysBySweep[n][j].moments[m])
       /\ \A i \in 1..Len(rays) : \A j \in 1..Len(rays[i]) :
             \A m \in DOMAIN rays[i][j].moments : RecordValid(rays[i][j].moments[m])
       /\ Len(acceptedLog') = Len(acceptedLog) + 1 =>
             LET ray == acceptedLog'[Len(acceptedLog')]
                 blocks == MomentBlocksAt(data, msg31Start)
             IN  /\ \A m \in DOMAIN ray.moments :
                       \E b \in blocks :
                           /\ BlockValid(data, b)
                           /\ BlockKey(data, b) = m
                           /\ ray.moments[m].numGates = U16(data, b + 8)
                           /\ ray.moments[m].gateWidth[1] = U16(data, b + 12)
                 /\ \A b \in blocks :
                       (BlockValid(data, b) /\ BlockKey(data, b) # "")
                          => BlockKey(data, b) \in DOMAIN ray.moments]_vars

\* The first ray accepted came from a record with six moment blocks that each
\* break a rule and one that keeps them all, and holds that one moment only.
C14_Witness ==
    /\ pc = "messages"
    /\ Len(acceptedLog) = 1
    /\ 0 \in scanned
    /\ DOMAIN acceptedLog[1].moments = {"REF"}
    /\ Cardinality({b \in MomentBlocksAt(data, CTM_HEADER_SIZE + MSG_HEADER_SIZE) :
                       ~BlockValid(data, b)}) = 6
    /\ Cardinality({BlockKey(data, b) :
                       b \in MomentBlocksAt(data, CTM_HEADER_SIZE + MSG_HEADER_SIZE)}) = 7

\* C15: while the segments are scanned, a station id that is set (non-empty)
\* and a timestamp that is set are never changed again: the first valid value
\* met in file order, volume header first, stays for the whole volume.
C15_FirstValuesWin ==
    [][pc = "messages" =>
          /\ stationId # <<>> => stationId' = stationId
          /\ datetime # None => datetime' = datetime]_vars

\* The VCP fields of the blocks of type 'R' of the body at start that have
\* room for one (20 bytes), in no order.
VcpFieldsAt(d, start) ==
    {U16(d, b + 16) :
        b \in {x \in {BlocksAt(d, start)[i] : i \in 1..U16(d, start + 30)} :
                  x # 0 /\ U8(d, x) = CharR /\ x + 20 <= Len(d)}}

\* C16: an accepted ray that carries a volume data block with a non-zero VCP
\* field leaves the volume's VCP non-zero; a VCP once non-zero never goes back
\* to 0; and the VCP changes only to a non-zero field of a ray being accepted.
\* So the VCP is 0 exactly when no accepted ray carried a non-zero field.
C16_VcpZeroIffNoField ==
    [][pc = "messages" =>
          /\ (Len(acceptedLog') = Len(acceptedLog) + 1
                 /\ VcpFieldsAt(data, msg31Start) \ {0} # {}) => vcp' # 0
          /\ vcp # 0 => vcp' # 0
          /\ vcp' # vcp =>
                /\ Len(acceptedLog') = Len(acceptedLog) + 1
                /\ vcp' \in VcpFieldsAt(data, msg31Start) \ {0}]_vars

\* How often x occurs in the sequence seq.
CountIn(seq, x) == Cardinality({i \in 1..Len(seq) : seq[i] = x})

\* The same elements, each as often, in any order.
SameBag(a, b) ==
    /\ Len(a) = Len(b)
    /\ \A i \in 1..Len(a) : CountIn(a, a[i]) = CountIn(b, a[i])

\* Two decodes ended alike and hold the same sweeps, each with the same rays
\* as often, in any order.
SameSweeps(o1, o2) ==
    /\ o1.pc = o2.pc
    /\ o1.error = o2.error
    /\ Len(o1.rays) = Len(o2.rays)
    /\ \A i \in 1..Len(o1.rays) : SameBag(o1.rays[i], o2.rays[i])
    /\ Len(o1.sweepsData) = Len(o2.sweepsData)
    /\ \A i \in 1..Len(o1.sweepsData) :
          /\ o1.sweepsData[i].index = o2.sweepsData[i].index
          /\ o1.sweepsData[i].rayCount = o2.sweepsData[i].rayCount

\* C17 as stated: the segments of a buffer decoded in another order give the
\* same station id, timestamp and VCP, the same sweeps and, per sweep, the same
\* rays as often.
C17_OrderFree ==
    (prev # None /\ pc \in {"done", "failed"}) =>
        /\ SameSweeps(Outcome, prev[1])
        /\ stationId = prev[1].stationId
        /\ datetime = prev[1].datetime
        /\ vcp = prev[1].vcp

\* C17, amended: the segments of a buffer decoded in another order give the
\* same outcome, the same sweeps and, per sweep, the same rays as often (their
\* order inside a sweep may differ); the station id, the timestamp and the VCP
\* depend on the order.
C17_SweepsOrderFree ==
    (prev # None /\ pc \in {"done", "failed"}) => SameSweeps(Outcome, prev[1])

\* Two orders of the same segments ended with the same sweeps, the rays of
\* one sweep in another order, and another timestamp and VCP.
C17_Witness ==
    /\ prev # None
    /\ pc = "done"
    /\ Len(rays[1]) >= 2
    /\ rays # prev[1].rays
    /\ datetime # prev[1].datetime
    /\ vcp # prev[1].vcp

\* The resampler's call: its grid side, its range bounds and its output.
GridSide == polar[1].imgSize

GridMin == polar[1].ranges[1]

GridMax == polar[1].ranges[Len(polar[1].ranges)]

GridOut == grid[1].output

\* Index in the output of pixel (px, py).
PixelIndex(px, py) == py * GridSide + px + 1

\* The sign of (computed range of the pixel at index k) - x.
PixelRangeCmp(k, x) ==
    CmpRange(Dist2((k - 1) % GridSide, (k - 1) \div GridSide, GridSide),
             GridSide, GridMax, x, grid[1].round)

\* The four corners of the grid.
Corners == {PixelIndex(0, 0), PixelIndex(GridSide - 1, 0),
            PixelIndex(0, GridSide - 1), PixelIndex(GridSide - 1, GridSide - 1)}

\* N x N elements; a pixel whose computed range is below minRange or above
\* maxRange is not-a-value; so is the centre pixel when minRange > 0.
GridMasked ==
    /\ Len(GridOut) = GridSide * GridSide
    /\ \A k \in 1..Len(GridOut) :
          (PixelRangeCmp(k, GridMin) < 0 \/ PixelRangeCmp(k, GridMax) > 0)
             => GridOut[k] = NaNVal
    /\ (GridSide % 2 = 0 /\ GridMin > 0)
          => GridOut[PixelIndex(GridSide \div 2, GridSide \div 2)] = NaNVal

\* C18 as stated: the grid has N x N elements, every pixel whose computed
\* range is below minRange or above maxRange is not-a-value, the centre pixel
\* is not-a-value when minRange > 0, and the four corners always are.
C18_CornersAlwaysMasked ==
    grid # None => (GridMasked /\ \A k \in Corners : GridOut[k] = NaNVal)

\* C18, amended: the grid has N x N elements, every pixel whose computed range
\* is below minRange or above maxRange is not-a-value, the centre pixel is
\* not-a-value when minRange > 0, and the four corners are not-a-value when
\* maxRange > 0 and N is 1 or at least 7.
C18_OutsideMasked ==
    grid # None =>
        /\ GridMasked
        /\ (GridMax > 0 /\ (GridSide = 1 \/ GridSide >= 7))
              => \A k \in Corners : GridOut[k] = NaNVal

\* A grid of side 8 over ranges that start above 0: the centre pixel and the
\* corners are not-a-value, some pixel holds a sample.
C18_Witness ==
    /\ grid # None
    /\ GridSide = 8
    /\ GridMin > 0
    /\ GridOut[PixelIndex(4, 4)] = NaNVal
    /\ \A k \in Corners : GridOut[k] = NaNVal
    /\ \E k \in 1..Len(GridOut) : GridOut[k] # NaNVal

\* The pixel at index k has its computed range inside [minRange, maxRange].
PixelInRange(k) == PixelRangeCmp(k, GridMin) >= 0 /\ PixelRangeCmp(k, GridMax) <= 0

\* The azimuth of the pixel at index k, rounded down to a multiple of 45, and
\* whether it is that multiple exactly.
PixelAzOf(k) ==
    PixelAzFloor(Dx2((k - 1) % GridSide, GridSide), Dy2((k - 1) \div GridSide, GridSide))

PixelAzExact(k) ==
    LET dx == Dx2((k - 1) % GridSide, GridSide)
        dy == Dy2((k - 1) \div GridSide, GridSide)
    IN  dx = 0 \/ dy = 0 \/ dx = dy \/ dx = 0 - dy

\* The azimuth the claim selects for pixel azimuth pa: the greatest sample
\* azimuth <= pa, or the greatest of all when none is.
SelectedAzimuth(pa) ==
    LET all == {polar[1].azimuths[i] : i \in 1..Len(polar[1].azimuths)}
        below == {a \in all : a <= pa}
        from == IF below = {} THEN all ELSE below
    IN  CHOOSE a \in from : \A b \in from : b <= a

\* The ray (0-based row of the input data) whose sample the pixel at k holds.
RowCopied(k) == (GridOut[k].raw - MinValidRaw) \div Len(polar[1].ranges)

\* C19: every pixel whose computed range is in range holds a sample of the
\* input data, taken from the row of a ray whose azimuth is the greatest
\* sample azimuth <= the pixel's azimuth, or the greatest sample azimuth of
\* all when the pixel's azimuth is below every sample's, whatever the order
\* of the input azimuths.
C19_NearestAzimuthBelow ==
    grid # None =>
        \A k \in 1..Len(GridOut) :
            PixelInRange(k) =>
                /\ GridOut[k] \in {polar[1].data[i] : i \in 1..Len(polar[1].data)}
                /\ polar[1].azimuths[RowCopied(k) + 1] = SelectedAzimuth(PixelAzOf(k))

\* Azimuths out of order; a pixel in range whose azimuth is exactly 45 holds a
\* sample of a ray at 45, one at 90 and 270 being there too; a pixel in range
\* whose azimuth is below 45 holds a sample of the ray at 270.
C19_Witness ==
    /\ grid # None
    /\ \E i \in 1..(Len(polar[1].azimuths) - 1) :
          polar[1].azimuths[i] > polar[1].azimuths[i + 1]
    /\ {polar[1].azimuths[i] : i \in 1..Len(polar[1].azimuths)} = {45, 90, 270}
    /\ \E k \in 1..Len(GridOut) :
          /\ PixelInRange(k)
          /\ PixelAzExact(k)
          /\ PixelAzOf(k) = 45
          /\ polar[1].azimuths[RowCopied(k) + 1] = 45
    /\ \E k \in 1..Len(GridOut) :
          /\ PixelInRange(k)
          /\ PixelAzOf(k) = 0
          /\ polar[1].azimuths[RowCopied(k) + 1] = 270

\* The UTF-16 code units of the names a caller can ask for.
NameUnits ==
    [n \in {"CFP", "PHI", "REF", "RHO", "SW", "VEL", "ZDR", "ZZZ"} |->
        CASE n = "CFP" -> <<67, 70, 80>>
          [] n = "PHI" -> <<80, 72, 73>>
          [] n = "REF" -> <<82, 69, 70>>
          [] n = "RHO" -> <<82, 72, 79>>
          [] n = "SW"  -> <<83, 87>>
          [] n = "VEL" -> <<86, 69, 76>>
          [] n = "ZDR" -> <<90, 68, 82>>
          [] n = "ZZZ" -> <<90, 90, 90>>]

\* a comes strictly before b, comparing code unit by code unit.
UnitsBefore(a, b) ==
    \E k \in 1..(Len(b)) :
        /\ \A j \in 1..(k - 1) : j <= Len(a) /\ a[j] = b[j]
        /\ (k > Len(a) \/ a[k] < b[k])

\* A list of names in strictly ascending order: sorted, no name twice.
SortedNoDup(list) ==
    \A i \in 1..Len(list), j \in 1..Len(list) :
        i < j => UnitsBefore(NameUnits[list[i]], NameUnits[list[j]])

NamesOf(list) == {list[i] : i \in 1..Len(list)}

\* The names under which some ray of sweep s (0-based) stores a moment.
NamesInSweep(s) == UNION {DOMAIN rays[s + 1][i].moments : i \in 1..Len(rays[s + 1])}

\* C20: on a decoded volume getMomentsForSweep(s) is sorted, has no name
\* twice and holds exactly the names some ray of sweep s stores; the
\* volume-wide list is sorted, has no name twice and holds exactly the names
\* of all the per-sweep lists; getData(s, m) succeeds when m is in
\* getMomentsForSweep(s) and fails for every other name.
C20_MomentLists ==
    pc = "done" =>
        /\ SortedNoDup(allMoments(rays))
        /\ NamesOf(allMoments(rays))
              = UNION {NamesOf(getMomentsForSweep(rays, s).value) : s \in 0..(Len(rays) - 1)}
        /\ \A s \in 0..(Len(rays) - 1) :
              LET out == getMomentsForSweep(rays, s)
              IN  /\ out.status = "ok"
                  /\ SortedNoDup(out.value)
                  /\ NamesOf(out.value) = NamesInSweep(s)
                  /\ \A m \in DOMAIN NameUnits :
                        (getData(rays, sweepsData, s, m).status = "ok")
                            <=> (m \in NamesOf(out.value))
        /\ (result # None /\ result[1].op = "moments")
              => result[1].out.value = allMoments(rays)
        /\ (result # None /\ result[1].op = "getMomentsForSweep"
                /\ QueryInRange(result[1]))
              => result[1].out = getMomentsForSweep(rays, result[1].sweepIndex)
        /\ (result # None /\ result[1].op = "getData" /\ QueryInRange(result[1]))
              => ((result[1].out.status = "ok")
                    <=> (result[1].moment \in NamesInSweep(result[1].sweepIndex)))

\* The volume-wide list was asked for on a volume of two sweeps or more, one
\* holding four names stored out of sorted order in the record, and the
\* list holds a name that another sweep's list lacks.
C20_Witness ==
    /\ pc = "done"
    /\ result # None
    /\ result[1].op = "moments"
    /\ Len(rays) >= 2
    /\ Len(result[1].out.value) >= 4
    /\ \E s \in 0..(Len(rays) - 1) :
          /\ Len(getMomentsForSweep(rays, s).value) >= 4
          /\ getData(rays, sweepsData, s, "CFP").status = "ok"
    /\ \E s \in 0..(Len(rays) - 1) :
          /\ NamesInSweep(s) # {}
          /\ NamesInSweep(s) # NamesOf(result[1].out.value)
          /\ getData(rays, sweepsData, s, "CFP").status = "error"

\* A record with a body length in range is framed at position p of d.
FramedAt(d, p) == p < Len(d) - (CTM_HEADER_SIZE + MSG_HEADER_SIZE) /\ ~BadSizeAt(d, p)

\* The full length of the record at p: 12 + (size in half-words * 2).
RecordLengthAt(d, p) == 12 + (d[p + 13] * 256 + d[p + 14]) * 2

\* The message-type byte of the record at p.
TypeAt(d, p) == d[p + 16]

\* The Ray Record Decoder would accept the body of the record at p.
BodyAccepted(d, p) ==
    parseMessage31(d, p + CTM_HEADER_SIZE + MSG_HEADER_SIZE, 0) # None

\* C21: at a record with a valid body length the scanner advances by
\* 12 + (size in half-words * 2) and stays in the segment, whatever the type
\* and whether a ray was accepted; a ray is stored only when the type byte
\* is 31, and a record of another type changes neither the rays nor the
\* station id, timestamp or VCP even when its body is a well-formed ray.
C21_OnlyType31AndFullAdvance ==
    [][(pc = "messages" /\ FramedAt(data, mpos)) =>
          /\ mpos' = mpos + RecordLengthAt(data, mpos)
          /\ pc' = "messages"
          /\ data' = data
          /\ (acceptedLog' # acceptedLog => TypeAt(data, mpos) = 31)
          /\ (TypeAt(data, mpos) # 31 =>
                /\ raysBySweep' = raysBySweep
                /\ acceptedLog' = acceptedLog
                /\ stationId' = stationId
                /\ datetime' = datetime
                /\ vcp' = vcp)]_vars

\* The scanner has passed a record of another type whose body is a
\* well-formed ray, a type-31 record that was rejected and a type-31 record
\* that was accepted, of three different lengths, and stands behind the last.
C21_Witness ==
    /\ pc = "messages"
    /\ \E p, q, r \in scanned :
          /\ FramedAt(data, p) /\ TypeAt(data, p) # 31 /\ BodyAccepted(data, p)
          /\ FramedAt(data, q) /\ TypeAt(data, q) = 31 /\ ~BodyAccepted(data, q)
          /\ FramedAt(data, r) /\ TypeAt(data, r) = 31 /\ BodyAccepted(data, r)
          /\ RecordLengthAt(data, p) # RecordLengthAt(data, q)
          /\ RecordLengthAt(data, q) # RecordLengthAt(data, r)
          /\ RecordLengthAt(data, p) # RecordLengthAt(data, r)
          /\ p + RecordLengthAt(data, p) \in scanned
          /\ q + RecordLengthAt(data, q) \in scanned
          /\ mpos = r + RecordLengthAt(data, r)
          /\ Len(acceptedLog) = 1

\* The fixed fields of the body at start are all there and the block count is
\* in range, but the pointer table runs past the bytes of the segment: the
\* read of a pointer throws.
TableOverruns(d, start) ==
    /\ start + 60 <= Len(d)
    /\ d[start + 31] * 256 + d[start + 32] \in 1..15
    /\ start + 32 + 4 * (d[start + 31] * 256 + d[start + 32]) > Len(d)

\* C22: when the Ray Record Decoder rejects a type-31 record, the
\* constructor does not fail, the stored rays, the station id, the timestamp
\* and the VCP stay what they were, and the scanner stands at the next
\* record of the same segment.
C22_RejectedRayIsolated ==
    [][(pc = "messages" /\ FramedAt(data, mpos) /\ TypeAt(data, mpos) = 31
            /\ ~BodyAccepted(data, mpos)) =>
          /\ pc' = "messages"
          /\ error' = error
          /\ raysBySweep' = raysBySweep
          /\ acceptedLog' = acceptedLog
          /\ volume' = volume
          /\ data' = data
          /\ mpos' = mpos + RecordLengthAt(data, mpos)]_vars

\* Behind a rejected record whose fields fail validation a later record of
\* the segment was accepted, and the last record examined was rejected
\* because its pointer table runs past the segment, the accepted rays kept.
C22_Witness ==
    /\ pc = "messages"
    /\ error = ""
    /\ \E q, r \in scanned :
          /\ q < r
          /\ FramedAt(data, q) /\ TypeAt(data, q) = 31 /\ ~BodyAccepted(data, q)
          /\ ~TableOverruns(data, q + CTM_HEADER_SIZE + MSG_HEADER_SIZE)
          /\ Dispatched(r)
    /\ \E q \in scanned :
          /\ FramedAt(data, q) /\ TypeAt(data, q) = 31
          /\ TableOverruns(data, q + CTM_HEADER_SIZE + MSG_HEADER_SIZE)
          /\ mpos = q + RecordLengthAt(data, q)
    /\ Len(acceptedLog) >= 2
    /\ \A k \in 1..Len(acceptedLog) :
          \E i \in 1..Len(raysBySweep[acceptedLog[k].sweepNumber]) :
              raysBySweep[acceptedLog[k].sweepNumber][i] = acceptedLog[k]

\* The data-block count of the body at start, and its i-th block pointer.
CountAt(d, start) == d[start + 31] * 256 + d[start + 32]

PointerAt(d, start, i) == U32(d, start + 32 + 4 * (i - 1))

\* Pointer i of the body at start leads to a block of type 'D' in the segment.
PointsToMoment(d, start, i) ==
    /\ PointerAt(d, start, i) # 0
    /\ start + PointerAt(d, start, i) + 4 <= Len(d)
    /\ d[start + PointerAt(d, start, i) + 1] = 68

\* The canonical name of the block pointer i leads to.
NamePointed(d, start, i) ==
    MOMENT_MAP(StripNul(TextDecode(SubBytes(d, start + PointerAt(d, start, i) + 1, 3))))

\* The names of the moment blocks the first n pointers lead to.
NamesPointed(d, start, n) ==
    {NamePointed(d, start, i) : i \in {k \in 1..n : PointsToMoment(d, start, k)}}

\* The type-31 record at p has its 60 fixed bytes in the segment.
Ray31At(d, p) ==
    /\ FramedAt(d, p)
    /\ TypeAt(d, p) = 31
    /\ p + CTM_HEADER_SIZE + MSG_HEADER_SIZE + 60 <= Len(d)

\* C23: a type-31 record whose station id does not start with A-Z, whose
\* block count is outside [1, 15] or whose pointer table does not fit in the
\* bytes of the segment adds no ray; a ray that is accepted takes its moments
\* from the blocks of its first n pointers only, n the block count.
C23_IdCountAndTable ==
    [][(pc = "messages" /\ Ray31At(data, mpos)) =>
          LET start == mpos + CTM_HEADER_SIZE + MSG_HEADER_SIZE
          IN  /\ (\/ data[start + 1] \notin 65..90
                  \/ CountAt(data, start) \notin 1..15
                  \/ TableOverruns(data, start))
                    => (acceptedLog' = acceptedLog /\ raysBySweep' = raysBySweep)
              /\ acceptedLog' # acceptedLog =>
                    /\ Len(acceptedLog') = Len(acceptedLog) + 1
                    /\ DOMAIN acceptedLog'[Len(acceptedLog')].moments
                          \subseteq NamesPointed(data, start, CountAt(data, start))]_vars

\* The scale and offset fields that occur in the records, as fractions.
FieldFraction(bits) ==
    CASE bits = <<0, 0>>     -> <<0, 1>>
      [] bits = <<16128, 0>> -> <<1, 2>>
      [] bits = <<16256, 0>> -> <<1, 1>>
      [] bits = <<16384, 0>> -> <<2, 1>>
      [] bits = <<17028, 0>> -> <<66, 1>>

\* Gate i (from 1) of the moment block at b as the bytes give it: one byte, or
\* two bytes with the high byte first.
RawAt(d, b, i) ==
    IF d[b + 20] = 8 THEN d[b + 28 + i]
    ELSE d[b + 28 + 2 * i - 1] * 256 + d[b + 28 + 2 * i]

\* x is what the claim gives for raw value raw at offset off and scale sc:
\* not-a-value for 0 and 1, else the number v with v * sc + off = raw, which
\* is raw itself at scale 1 and offset 0.
ConvertedAs(x, raw, off, sc) ==
    IF raw \in {0, 1} THEN x.kind = "NaN"
    ELSE /\ x.kind = "phys"
         /\ x.value[2] > 0
         /\ x.value[1] * sc[1] * off[2] + off[1] * x.value[2] * sc[2]
               = raw * x.value[2] * sc[2] * off[2]
         /\ (sc = <<1, 1>> /\ off = <<0, 1>>) => x.value = <<raw, 1>>

\* The samples of moment record rec are those of the block at b, converted.
ConvertedFrom(rec, d, b) ==
    /\ Len(rec.data) = d[b + 9] * 256 + d[b + 10]
    /\ \A g \in 1..Len(rec.data) :
          ConvertedAs(rec.data[g], RawAt(d, b, g),
                      FieldFraction(Bits32(d, b + 24)), FieldFraction(Bits32(d, b + 20)))

\* C24: every moment of an accepted ray holds, gate by gate, the samples of
\* one of the ray's blocks of that name, 8-bit or big-endian 16-bit: raw 0 and
\* 1 as not-a-value, any other raw value v as (v - offset) / scale, which at
\* scale 1 and offset 0 is v itself.
C24_PhysicalConversion ==
    [][(pc = "messages" /\ acceptedLog' # acceptedLog) =>
          LET start == mpos + CTM_HEADER_SIZE + MSG_HEADER_SIZE
              ray == acceptedLog'[Len(acceptedLog')]
          IN  \A key \in DOMAIN ray.moments :
                \E i \in 1..CountAt(data, start) :
                    /\ PointsToMoment(data, start, i)
                    /\ NamePointed(data, start, i) = key
                    /\ ConvertedFrom(ray.moments[key], data,
                                     start + PointerAt(data, start, i))]_vars

\* A ray was accepted whose REF samples, raw {2, 3, 4} at scale 1 and offset
\* 0, are 2, 3, 4, whose 16-bit VEL samples, raw {0, 1, 2, 258, 1000} at scale
\* 0.5 and offset 1, are not-a-value twice, then 2, 514 and 1998, and whose SW
\* sample, raw 100 at scale 2 and offset 66, is 17.
C24_Witness ==
    \E k \in 1..Len(acceptedLog) :
        LET ms == acceptedLog[k].moments
        IN  /\ {"REF", "VEL", "SW"} \subseteq DOMAIN ms
            /\ [g \in 1..3 |-> ms["REF"].data[g].value] = <<<<2, 1>>, <<3, 1>>, <<4, 1>>>>
            /\ Len(ms["VEL"].data) = 5
            /\ ms["VEL"].data[1] = NaNVal
            /\ ms["VEL"].data[2] = NaNVal
            /\ [g \in 3..5 |-> ms["VEL"].data[g].value]
                  = (3 :> <<2, 1>>) @@ (4 :> <<514, 1>>) @@ (5 :> <<1998, 1>>)
            /\ ms["SW"].data[1].value = <<17, 1>>

IsNotPadding(c) == c # 0 /\ c # 32

\* A name without its padding, NUL or space.
TrimPadding(name) == SelectSeq(name, IsNotPadding)

\* A name without its NUL bytes only.
TrimNul(name) == SelectSeq(name, IsNotNul)

\* The pointers of the body at start, among the first n, that lead to a
\* moment block the block decoder returns.
GoodBlockPointers(d, start) ==
    {i \in 1..CountAt(d, start) :
        /\ PointsToMoment(d, start, i)
        /\ parseMomentBlock(d, start + PointerAt(d, start, i)) # None}

\* The 3 name bytes of the block pointer i leads to, decoded.
RawNamePointed(d, start, i) ==
    TextDecode(SubBytes(d, start + PointerAt(d, start, i) + 1, 3))

CanonicalNames == {"REF", "VEL", "SW", "ZDR", "PHI", "RHO", "CFP"}

\* The record at p is a type-31 record whose fixed fields and pointer table
\* the Ray Record Decoder accepts.
GoodHeaderAt(d, p) ==
    Ray31At(d, p) /\ HeaderAccepted(d, p + CTM_HEADER_SIZE + MSG_HEADER_SIZE)

\* With Trim for the trimming of a name: the moments of the ray decoded at
\* the current record are exactly the canonical names of its good blocks,
\* trimmed, and the ray is accepted when there is one.
MomentsByName(Trim(_)) ==
    LET start == mpos + CTM_HEADER_SIZE + MSG_HEADER_SIZE
        names == {MOMENT_MAP(Trim(RawNamePointed(data, start, i))) :
                     i \in GoodBlockPointers(data, start)} \ {""}
    IN  /\ names \subseteq CanonicalNames
        /\ (names = {}) <=> (acceptedLog' = acceptedLog)
        /\ names # {} =>
              /\ Len(acceptedLog') = Len(acceptedLog) + 1
              /\ DOMAIN acceptedLog'[Len(acceptedLog')].moments = names

\* C25: the name of a moment block is trimmed of its padding, NUL or space,
\* before the lookup: the keys of an accepted ray's moment map are exactly
\* the canonical names, among REF, VEL, SW, ZDR, PHI, RHO, CFP, of the trimmed
\* names of its good blocks; a block of another name is left out and the
\* ray keeps its other moments.
C25_NamesTrimmedOfPadding ==
    [][(pc = "messages" /\ GoodHeaderAt(data, mpos)) => MomentsByName(TrimPadding)]_vars

\* What the decoder does: the same with NUL bytes alone removed.
C25_NamesTrimmedOfNul ==
    [][(pc = "messages" /\ GoodHeaderAt(data, mpos)) => MomentsByName(TrimNul)]_vars

\* The length of the body the header of the record at p declares.
BodyLengthAt(d, p) == RecordLengthAt(d, p) - CTM_HEADER_SIZE - MSG_HEADER_SIZE

\* The bytes of the moment block at b: its 28-byte header and its samples.
BlockBytes(d, b) ==
    28 + (d[b + 9] * 256 + d[b + 10]) * (IF d[b + 20] = 16 THEN 2 ELSE 1)

\* C26: a ray is accepted only when its pointer table lies inside the body
\* its header declares, and each of its moments is decoded from a block
\* that lies, header and samples, inside that body.
C26_ReadsInsideBody ==
    [][(pc = "messages" /\ acceptedLog' # acceptedLog) =>
          LET start == mpos + CTM_HEADER_SIZE + MSG_HEADER_SIZE
              len == BodyLengthAt(data, mpos)
              ray == acceptedLog'[Len(acceptedLog')]
          IN  /\ 32 + 4 * CountAt(data, start) <= len
              /\ \A key \in DOMAIN ray.moments :
                    \E i \in 1..CountAt(data, start) :
                        /\ PointsToMoment(data, start, i)
                        /\ NamePointed(data, start, i) = key
                        /\ Some(ray.moments[key])
                              = parseMomentBlock(data, start + PointerAt(data, start, i))
                        /\ PointerAt(data, start, i)
                              + BlockBytes(data, start + PointerAt(data, start, i)) <= len]_vars

\* One iteration of the record loop stops the loop or moves the offset on by
\* at least 5 bytes, never past the end of the data.
RecordLoopAdvances ==
    pc = "records" =>
        \/ pc' = "store"
        \/ /\ pos' >= pos + 5
           /\ pos' <= Len(compressedData)

\* One iteration of the message loop leaves the loop, or moves the position
\* on by 1 at a bad size and by at least 28 at a framed record, to a position
\* not examined before.
MessageLoopAdvances ==
    pc = "messages" =>
        \/ pc' = "records" /\ mpos' = mpos
        \/ /\ pc' = "messages"
           /\ IF BadSizeAt(data, mpos) THEN mpos' = mpos + 1 ELSE mpos' >= mpos + 28
           /\ mpos' \notin scanned'
           /\ scanned' = scanned \cup {mpos}

\* C27: every iteration of the record loop stops or advances the offset by at
\* least 5, every iteration of the message loop advances the position by 1
\* or by at least 28 and never returns to a position, and every decode that
\* is started ends, with a volume or with an error.
C27_DecodingTerminates ==
    /\ [][RecordLoopAdvances /\ MessageLoopAdvances]_vars
    /\ [](pc = "new" => <>(pc \in {"done", "failed"}))

\* A decode has ended whose last segment took a resynchronization and four
\* framed records or more to scan, after an earlier segment.
C27_Witness ==
    /\ pc = "done"
    /\ \E p \in scanned : BadSizeAt(data, p)
    /\ Cardinality({p \in scanned : FramedAt(data, p)}) >= 4
    /\ pos > Len(data) + 8

\* The rayCounts of a metadata list, added up.
RECURSIVE SumRayCounts(_)
SumRayCounts(sd) ==
    IF sd = <<>> THEN 0 ELSE Head(sd).rayCount + SumRayCounts(Tail(sd))

\* The accumulator holds, under every raw sweep number met so far and no
\* other, the rays accepted with that number, in file order.
AccumulatorIsLog ==
    /\ DOMAIN raysBySweep = AcceptedSweepNumbers
    /\ \A n \in DOMAIN raysBySweep : raysBySweep[n] = LogOfSweep(n)

\* The positions of the log that hold the j-th ray of sweep i.
StoredFrom(i, j) ==
    {k \in 1..Len(acceptedLog) :
        /\ acceptedLog[k] = rays[i][j]
        /\ Len(SelectSeq(SubSeq(acceptedLog, 1, k),
                         LAMBDA r : r.sweepNumber = acceptedLog[k].sweepNumber)) = j}

\* C28: while a decode runs the accumulator holds every accepted ray once,
\* under its raw sweep number and in file order; in a constructed volume no
\* sweep is empty, every accepted ray is the j-th ray of the sweep of its
\* number when it was the j-th ray accepted with that number, the metadata
\* has one entry per sweep with index = position and rayCount = the number
\* of rays of the sweep, and the rayCounts add up to the number of accepted
\* records.
C28_EveryRayStoredOnce ==
    /\ pc \in {"records", "messages", "store"} => AccumulatorIsLog
    /\ pc = "done" =>
          /\ \A i \in 1..Len(rays) :
                /\ Len(rays[i]) > 0
                /\ \A j \in 1..Len(rays[i]) :
                      /\ rays[i][j].sweepNumber = rays[i][1].sweepNumber
                      /\ StoredFrom(i, j) # {}
          /\ \A k \in 1..Len(acceptedLog) :
                Cardinality({i \in 1..Len(rays) :
                                rays[i][1].sweepNumber = acceptedLog[k].sweepNumber}) = 1
          /\ Len(sweepsData) = Len(rays)
          /\ \A i \in 1..Len(sweepsData) :
                /\ sweepsData[i].index = i - 1
                /\ sweepsData[i].rayCount = Len(rays[i])
          /\ SumRayCounts(sweepsData) = Len(acceptedLog)

\* A volume of two sweeps or more, one of them with two rays or more, built
\* from rays whose sweep numbers alternate in the file.
C28_Witness ==
    /\ pc = "done"
    /\ Len(rays) >= 2
    /\ \E i \in 1..Len(rays) : Len(rays[i]) >= 2
    /\ \E k \in 1..(Len(acceptedLog) - 2) :
          /\ acceptedLog[k].sweepNumber # acceptedLog[k + 1].sweepNumber
          /\ acceptedLog[k].sweepNumber = acceptedLog[k + 2].sweepNumber

\* Gate g (0-based) is the last gate whose range is <= the range of pixel k.
IsLastGateBelow(k, g) ==
    /\ PixelRangeCmp(k, polar[1].ranges[g + 1]) >= 0
    /\ \A h \in (g + 1)..(Len(polar[1].ranges) - 1) :
          PixelRangeCmp(k, polar[1].ranges[h + 1]) < 0

\* C29: every pixel whose computed range is in range reads data at an index
\* inside [0, |azimuths| x |ranges|): its azimuth index after the wrap is in
\* [0, |azimuths|), the gate found is the last gate whose range is <= the
\* pixel range, it is in [0, |ranges|) already, and the clamp leaves it as
\* it is.
C29_ReadsInsideData ==
    grid # None =>
        \A k \in 1..Len(GridOut) :
            PixelInRange(k) =>
                /\ grid[1].reads[k] # None
                /\ LET r == grid[1].reads[k][1]
                       na == Len(polar[1].azimuths)
                       nr == Len(polar[1].ranges)
                   IN  /\ r.azPos \in 0..(na - 1)
                       /\ r.azIdx \in 0..(na - 1)
                       /\ r.gate \in 0..(nr - 1)
                       /\ IsLastGateBelow(k, r.gate)
                       /\ r.rangeIdx = r.gate
                       /\ r.index \in 0..(na * nr - 1)
                       /\ GridOut[k] = polar[1].data[r.index + 1]

\* Three rays and three gates with a range repeated: a pixel at the largest
\* range reads the last gate, a pixel reads the second of the two equal
\* gates, and a pixel whose azimuth is below every ray's reads the last of
\* the sorted azimuths.
C29_Witness ==
    /\ grid # None
    /\ polar[1].ranges = <<100, 100, 150>>
    /\ Len(polar[1].azimuths) = 3
    /\ \E k \in 1..Len(GridOut) :
          /\ PixelRangeCmp(k, GridMax) = 0
          /\ grid[1].reads[k] # None
          /\ grid[1].reads[k][1].gate = 2
    /\ \E k \in 1..Len(GridOut) :
          /\ grid[1].reads[k] # None
          /\ grid[1].reads[k][1].gate = 1
    /\ \E k \in 1..Len(GridOut) :
          /\ grid[1].reads[k] # None
          /\ PixelAzOf(k) = 0
          /\ grid[1].reads[k][1].azPos = 2

\* The record loop stands at a whole segment of positive size whose chunk
\* does not open with 'BZ'.
AtUnsignedCompressed ==
    /\ pc = "records"
    /\ MoreRecords
    /\ recordSize.sign > 0
    /\ ~Truncated
    /\ ~HasBzSignature(chunk)

====
